---------------------------- MODULE Spec2Model ----------------------------
(***************************************************************************)
(* A model of two parts of jlrs' async support:                            *)
(*                                                                         *)
(*  - the future bridge of async_util/future.rs: the constructor           *)
(*    JuliaFuture::new (and its variants, which differ only in the name of *)
(*    the scheduling function), JuliaFuture::poll and the completion       *)
(*    callback wake_task, all working on one Arc<Mutex<TaskState>>;        *)
(*  - the persistent task envelope of async_util/internal.rs:              *)
(*    PendingTask<PersistentComms<C, P, O>, P, Persistent>::call.          *)
(***************************************************************************)
EXTENDS Integers, Sequences, FiniteSets, TLC

(***************************************************************************)
(* Bounds of the model.                                                    *)
(***************************************************************************)
\* how many times the future is polled at most
MaxPolls == 3
\* how many distinct wakers (task contexts) may poll the future
NumWakers == 2
\* how many requests are sent to the persistent task at most
MaxRequests == 3
\* how many PersistentHandle clones are alive at most
MaxHandles == 2
\* how many roots one call of init, run or exit pushes at most
MaxRoots == 1
\* how deep the scopes of one task body are nested at most
MaxDepth == 2

\* the number of Outputs a body reserves, and of the values it roots in them
MaxOutputs == 1
MaxValues == 2
NoValue == 0
Values == 1..MaxValues

\* the number of values a scope creates with Value::new
MaxNew == 2

\* the include task before its body returned
NotIncluded == [called |-> FALSE, raised |-> NoValue, error |-> <<>>]
\* the largest P::CHANNEL_CAPACITY of the modelled persistent tasks
ChannelCapacity == 1

(***************************************************************************)
(* Values.                                                                 *)
(***************************************************************************)
\* Option<Waker>::None
NoWaker == 0
\* Option<Task>::None
NoTask == 0
\* the Task returned by the scheduling call
TaskHandle == 1

Wakers == 1..NumWakers

VARIABLES
    \* ---- future bridge (future.rs)
    cpc,          \* position of the constructor
    shared_state, \* TaskState {completed, waker, task}
    lock,         \* holder of the Mutex: "free", "new", "poll", "wake"
    poisoned,     \* the Mutex' poison flag
    strong,       \* strong count of the Arc
    fut,          \* the JuliaFuture: "none", "live", "dropped"
    engine,       \* the engine's task: "idle", "scheduled", "ran"
    outcome,      \* how the task's function ended: "none", "value", "raised"
    wpc,          \* position of wake_task: "idle", "locked", "done"
    pollpc,       \* position of poll: "idle", "locked"
    pollCtx,      \* the waker of the poll in progress and whether cloning it panics
    polls,        \* number of polls started
    pollResult,   \* what the most recent poll returned
    pendingWaker, \* the waker passed to the most recent poll that returned Pending
    woken,        \* the wakers wake_task has woken, in order
    hist,         \* what happened: flags recorded by the steps
    \* ---- persistent task envelope (internal.rs)
    tpc,          \* position of the envelope's call
    handleChan,   \* what was sent on the one-shot handle channel, in order
    reqRx,        \* the requester's end of the handle channel
    handles,      \* number of live PersistentHandles (owners of the request sender)
    queue,        \* the request channel: messages sent and not yet received
    nextId,       \* number of requests sent so far
    current,      \* the message the loop is serving (<<>> when none)
    pstate,       \* the State returned by init: [live, log]
    slots,        \* the Stack's root slots in use: who rooted each value
    offset,       \* stack.size() recorded after init
    owner,        \* whether the base frame's owner is alive
    responses,    \* the responses sent, in order
    calls,        \* how often init, run and exit were invoked
    phist,        \* what happened: flags recorded by the steps
    capacity,     \* P::CHANNEL_CAPACITY of the persistent task
    waiting,      \* the requests whose send is suspended on the full channel
    accepted,     \* the requests in the order the channel accepted them
    rxDropped,    \* the requests whose response receiver was dropped
    \* ---- the Stack's nested frames and the other envelopes (internal.rs)
    frames,       \* the bases of the nested scopes that are open, outermost first
    kind,         \* which envelope is called on the Stack
    epc,          \* position of a one-shot envelope's call
    eres,         \* what the envelope's body returned: "none", "ok", "err"
    resRx,        \* the submitter's end of the result channel
    resChan,      \* the results sent on the result channel, in order
    included,     \* what the include task's body did: [called, raised, error]
    \* ---- primitive values in a scope (tests/primitives.rs)
    prim,         \* the scope, the value created last and what unbox returned
    \* ---- lookups in a module (wrappers/ptr/module.rs)
    mainModule    \* the globals of a module and the lookup made last

fvars == <<cpc, shared_state, lock, poisoned, strong, fut, engine, outcome,
           wpc, pollpc, pollCtx, polls, pollResult, pendingWaker, woken, hist>>

cvars == <<capacity, waiting, accepted, rxDropped>>

pvars == <<tpc, handleChan, reqRx, handles, queue, nextId, current, pstate,
           slots, offset, owner, responses, calls, phist, cvars>>

evars == <<kind, epc, eres, resRx, resChan, included>>

vars == <<fvars, pvars, frames, evars, prim, mainModule>>

(***************************************************************************)
(* TaskState and the pure parts of the three operations.                   *)
(***************************************************************************)
\* future.rs 46-51
TaskStateNew == [completed |-> FALSE, waker |-> NoWaker, task |-> NoTask]

\* a store that is lost
SetTask_Lost(st, t) == st

\* the task is stored in a state made anew
SetTask_Fresh(st, t) == [TaskStateNew EXCEPT !.task = t]

\* future.rs 84: data.task = Some(task)
SetTask(st, t) == [st EXCEPT !.task = t]

\* the call's exception is swallowed
SchedulePanics_Never(raised) == FALSE

\* future.rs 74-77: unwrap_or_else(|e| panic!(..))
SchedulePanics(raised) == raised

\* the poison is ignored (into_inner)
LockUnwrapPanics_Never(p) == FALSE

\* future.rs 526: self.shared_state.lock().unwrap(); 85: _ => panic!("Lock poisoned")
LockUnwrapPanics(p) == p

\* future.rs 538-539: fetch raises iff the task's function raised
FetchRaises(o) == o = "raised"

\* the two branches swapped
PollOutcome_Swapped(st, exc) ==
    IF st.completed
    THEN IF st.task # NoTask
         THEN IF exc THEN "ReadyOk" ELSE "ReadyErr"
         ELSE "unreachable"
    ELSE "Pending"

\* future.rs 527-562: the value poll returns
PollOutcome(st, exc) ==
    IF st.completed
    THEN IF st.task # NoTask
         THEN IF exc THEN "ReadyErr" ELSE "ReadyOk"
         ELSE "unreachable"
    ELSE "Pending"

\* the waker is stored before completed is looked at
PollStore_Eager(st, w) == [st EXCEPT !.waker = w]

\* future.rs 557-562: the state poll leaves
PollStore(st, w) ==
    IF ~st.completed /\ st.waker = NoWaker
    THEN [st EXCEPT !.waker = w]
    ELSE st

\* the waker is woken by reference and stays in the state
WakeState_KeepsWaker(st) == [st EXCEPT !.completed = TRUE]

\* future.rs 573-574: completed = true; waker.take()
WakeState(st) == [st EXCEPT !.completed = TRUE, !.waker = NoWaker]

\* the reference is not reclaimed
ArcFromRawDrop_Leak(n) == n

\* future.rs 569, 578: Arc::from_raw(state), dropped when wake_task returns
ArcFromRawDrop(n) == n - 1

\* future.rs 37-39: dropping the JuliaFuture drops its Arc
ArcDrop(n) == n - 1

Flag(f) == hist' = hist \cup {f}

(***************************************************************************)
(* The constructor, future.rs 42-90.                                       *)
(***************************************************************************)
\* future.rs 46-55: Arc::new(Mutex::new(TaskState{..})), clone, Arc::into_raw
NewState ==
    /\ cpc = "start"
    /\ cpc' = "created"
    /\ shared_state' = TaskStateNew
    /\ strong' = 2
    /\ UNCHANGED <<lock, poisoned, fut, engine, outcome, wpc, pollpc, pollCtx,
                   polls, pollResult, pendingWaker, woken, hist,
                   pvars, frames, evars,
                   prim, mainModule>>

\* future.rs 65-79: the call of asynccall (interactivecall, scheduleasync, ...)
ScheduleCall(raised) ==
    /\ cpc = "created"
    /\ IF SchedulePanics(raised)
       THEN /\ cpc' = "panicked"
            /\ strong' = ArcDrop(strong)
            /\ engine' = engine
            /\ Flag("scheduleRaised")
       ELSE /\ cpc' = "scheduled"
            /\ engine' = "scheduled"
            /\ strong' = strong
            /\ IF raised THEN Flag("scheduleRaised") ELSE hist' = hist
    /\ UNCHANGED <<shared_state, lock, poisoned, fut, outcome, wpc, pollpc,
                   pollCtx, polls, pollResult, pendingWaker, woken,
                   pvars, frames, evars,
                   prim, mainModule>>

\* future.rs 82-85: shared_state.lock(), panic when poisoned
StoreLock ==
    /\ cpc = "scheduled"
    /\ lock = "free"
    /\ IF LockUnwrapPanics(poisoned)
       THEN /\ cpc' = "panicked"
            /\ strong' = ArcDrop(strong)
            /\ lock' = lock
       ELSE /\ cpc' = "locked"
            /\ lock' = "new"
            /\ strong' = strong
    /\ IF poisoned THEN Flag("newPoisoned") ELSE hist' = hist
    /\ UNCHANGED <<shared_state, poisoned, fut, engine, outcome, wpc, pollpc,
                   pollCtx, polls, pollResult, pendingWaker, woken,
                   pvars, frames, evars,
                   prim, mainModule>>

\* future.rs 84-87: data.task = Some(task), the guard is dropped
StoreTask ==
    /\ cpc = "locked"
    /\ lock = "new"
    /\ shared_state' = SetTask(shared_state, TaskHandle)
    /\ lock' = "free"
    /\ cpc' = "stored"
    /\ IF shared_state.completed THEN Flag("completedBeforeTask") ELSE hist' = hist
    /\ UNCHANGED <<poisoned, strong, fut, engine, outcome, wpc, pollpc, pollCtx,
                   polls, pollResult, pendingWaker, woken,
                   pvars, frames, evars,
                   prim, mainModule>>

\* the JuliaFuture is returned before the task is stored
ReturnFuture_Unstored ==
    /\ cpc = "scheduled"
    /\ cpc' = "returned"
    /\ fut' = "live"
    /\ UNCHANGED <<shared_state, lock, poisoned, strong, engine, outcome, wpc,
                   pollpc, pollCtx, polls, pollResult, pendingWaker, woken, hist,
                   pvars, frames, evars,
                   prim, mainModule>>

\* future.rs 89: JuliaFuture { shared_state }
ReturnFuture ==
    /\ cpc = "stored"
    /\ cpc' = "returned"
    /\ fut' = "live"
    /\ UNCHANGED <<shared_state, lock, poisoned, strong, engine, outcome, wpc,
                   pollpc, pollCtx, polls, pollResult, pendingWaker, woken, hist,
                   pvars, frames, evars,
                   prim, mainModule>>

\* the JuliaFuture is dropped by its owner
DropFuture ==
    /\ fut = "live"
    /\ pollpc = "idle"
    /\ fut' = "dropped"
    /\ strong' = ArcDrop(strong)
    /\ IF wpc # "done" THEN Flag("droppedBeforeWake") ELSE hist' = hist
    /\ UNCHANGED <<cpc, shared_state, lock, poisoned, engine, outcome, wpc,
                   pollpc, pollCtx, polls, pollResult, pendingWaker, woken,
                   pvars, frames, evars,
                   prim, mainModule>>

(***************************************************************************)
(* The engine: it runs the scheduled task on one of its threads and calls  *)
(* wake_task when the task's function has returned or raised.              *)
(***************************************************************************)
EngineRun(o) ==
    /\ engine = "scheduled"
    /\ engine' = "ran"
    /\ outcome' = o
    /\ UNCHANGED <<cpc, shared_state, lock, poisoned, strong, fut, wpc, pollpc,
                   pollCtx, polls, pollResult, pendingWaker, woken, hist,
                   pvars, frames, evars,
                   prim, mainModule>>

(***************************************************************************)
(* wake_task, future.rs 568-578.                                           *)
(***************************************************************************)
\* future.rs 569-571, 576: Arc::from_raw, state.lock(); Err(_) => ()
WakeLock ==
    /\ engine = "ran"
    /\ wpc = "idle"
    /\ lock = "free"
    /\ IF poisoned
       THEN /\ wpc' = "done"
            /\ strong' = ArcFromRawDrop(strong)
            /\ lock' = lock
            /\ Flag("wakePoisoned")
       ELSE /\ wpc' = "locked"
            /\ lock' = "wake"
            /\ strong' = strong
            /\ hist' = hist
    /\ UNCHANGED <<cpc, shared_state, poisoned, fut, engine, outcome, pollpc,
                   pollCtx, polls, pollResult, pendingWaker, woken,
                   pvars, frames, evars,
                   prim, mainModule>>

\* future.rs 572-575, 578: completed = true, the waker is taken and woken
WakeBody ==
    /\ wpc = "locked"
    /\ lock = "wake"
    /\ shared_state' = WakeState(shared_state)
    /\ woken' = IF shared_state.waker # NoWaker
                THEN Append(woken, shared_state.waker)
                ELSE woken
    /\ lock' = "free"
    /\ strong' = ArcFromRawDrop(strong)
    /\ wpc' = "done"
    /\ UNCHANGED <<cpc, poisoned, fut, engine, outcome, pollpc, pollCtx, polls,
                   pollResult, pendingWaker, hist,
                   pvars, frames, evars,
                   prim, mainModule>>

(***************************************************************************)
(* JuliaFuture::poll, future.rs 525-563.                                   *)
(***************************************************************************)
Resolved == pollResult \in {"ReadyOk", "ReadyErr"}

\* future.rs 526: self.shared_state.lock().unwrap()
PollLock(w, clonePanics) ==
    /\ fut = "live"
    /\ pollpc = "idle"
    /\ ~Resolved
    /\ polls < MaxPolls
    /\ lock = "free"
    /\ polls' = polls + 1
    /\ IF LockUnwrapPanics(poisoned)
       THEN /\ pollResult' = "panic"
            /\ Flag("pollPoisoned")
            /\ UNCHANGED <<lock, pollpc, pollCtx>>
       ELSE /\ lock' = "poll"
            /\ pollpc' = "locked"
            /\ pollCtx' = [waker |-> w, clonePanics |-> clonePanics]
            /\ pollResult' = pollResult
            /\ hist' = (hist \cup (IF poisoned THEN {"pollPoisoned", "pollWentOn"} ELSE {}))
                            \cup (IF polls = 0 /\ wpc = "done" THEN {"firstPollAfterWake"} ELSE {})
                            \cup (IF wpc = "done" THEN {"pollAfterWake"} ELSE {})
    /\ UNCHANGED <<cpc, shared_state, poisoned, strong, fut, engine, outcome,
                   wpc, pendingWaker, woken,
                   pvars, frames, evars,
                   prim, mainModule>>

\* poll returns without dropping the guard
PollBody_KeepsGuard ==
    /\ pollpc = "locked"
    /\ lock = "poll"
    /\ pollpc' = "idle"
    /\ lock' = lock
    /\ LET res == PollOutcome(shared_state, FetchRaises(outcome))
           clones == res = "Pending" /\ PollStore(shared_state, pollCtx.waker) # shared_state
       IN  IF res = "unreachable" \/ (clones /\ pollCtx.clonePanics)
           THEN \* a panic while the guard is held poisons the Mutex
                /\ poisoned' = TRUE
                /\ pollResult' = "panic"
                /\ UNCHANGED <<shared_state, pendingWaker>>
                /\ Flag(IF res = "unreachable" THEN "unreachable" ELSE "clonePanicked")
           ELSE /\ shared_state' = PollStore(shared_state, pollCtx.waker)
                /\ pollResult' = res
                /\ pendingWaker' = IF res = "Pending" THEN pollCtx.waker ELSE pendingWaker
                /\ UNCHANGED <<poisoned, hist>>
    /\ UNCHANGED <<cpc, strong, fut, engine, outcome, wpc, pollCtx, polls, woken,
                   pvars, frames, evars,
                   prim, mainModule>>

\* future.rs 527-563: the body of poll, the guard is dropped on return
PollBody ==
    /\ pollpc = "locked"
    /\ lock = "poll"
    /\ pollpc' = "idle"
    /\ lock' = "free"
    /\ LET res == PollOutcome(shared_state, FetchRaises(outcome))
           clones == res = "Pending" /\ PollStore(shared_state, pollCtx.waker) # shared_state
       IN  IF res = "unreachable" \/ (clones /\ pollCtx.clonePanics)
           THEN \* a panic while the guard is held poisons the Mutex
                /\ poisoned' = TRUE
                /\ pollResult' = "panic"
                /\ UNCHANGED <<shared_state, pendingWaker>>
                /\ Flag(IF res = "unreachable" THEN "unreachable" ELSE "clonePanicked")
           ELSE /\ shared_state' = PollStore(shared_state, pollCtx.waker)
                /\ pollResult' = res
                /\ pendingWaker' = IF res = "Pending" THEN pollCtx.waker ELSE pendingWaker
                /\ UNCHANGED <<poisoned, hist>>
    /\ UNCHANGED <<cpc, strong, fut, engine, outcome, wpc, pollCtx, polls, woken,
                   pvars, frames, evars,
                   prim, mainModule>>

(***************************************************************************)
(* The specification of the future bridge.                                 *)
(***************************************************************************)
FInit ==
    /\ cpc = "start"
    /\ shared_state = TaskStateNew
    /\ lock = "free"
    /\ poisoned = FALSE
    /\ strong = 0
    /\ fut = "none"
    /\ engine = "idle"
    /\ outcome = "none"
    /\ wpc = "idle"
    /\ pollpc = "idle"
    /\ pollCtx = [waker |-> NoWaker, clonePanics |-> FALSE]
    /\ polls = 0
    /\ pollResult = "none"
    /\ pendingWaker = NoWaker
    /\ woken = <<>>
    /\ hist = {}

PInit ==
    /\ tpc = "start"
    /\ handleChan = <<>>
    /\ reqRx = "waiting"
    /\ handles = 0
    /\ queue = <<>>
    /\ nextId = 0
    /\ current = <<>>
    /\ pstate = [live |-> FALSE, log |-> <<>>]
    /\ slots = <<>>
    /\ offset = 0
    /\ owner = FALSE
    /\ responses = <<>>
    /\ calls = [init |-> 0, run |-> 0, exit |-> 0]
    /\ phist = {}
    /\ capacity \in 0..ChannelCapacity
    /\ waiting = {}
    /\ accepted = <<>>
    /\ rxDropped = {}

Next ==
    \/ NewState
    \/ \E raised \in BOOLEAN : ScheduleCall(raised)
    \/ StoreLock
    \/ StoreTask
    \/ ReturnFuture
    \/ DropFuture
    \/ \E o \in {"value", "raised"} : EngineRun(o)
    \/ WakeLock
    \/ WakeBody
    \/ \E w \in Wakers, clonePanics \in BOOLEAN : PollLock(w, clonePanics)
    \/ PollBody

EInit ==
    /\ frames = <<>>
    /\ epc = "start"
    /\ eres = "none"
    /\ resRx = "alive"
    /\ resChan = <<>>
    /\ included = NotIncluded

(***************************************************************************)
(* Primitive values (tests/primitives.rs).  Value::new boxes a host value   *)
(* in an engine object, the type tag of the engine's type and the bits of   *)
(* the value; is::<T>() compares the tag with the engine type of T, and     *)
(* unbox::<T>() reads the bits back when is::<T>() holds.                   *)
(***************************************************************************)
PrimTypes == {"u8", "u16", "u32", "u64", "usize", "i8", "i16", "i32", "i64",
              "isize", "f32", "f64", "bool", "char"}

\* the pointer widths of the targets the crate is built for
PointerWidths == {32, 64}

\* std::mem::size_of::<T>() in bytes
Size(T, ptr) ==
    CASE T \in {"u8", "i8", "bool"} -> 1
      [] T \in {"u16", "i16"} -> 2
      [] T \in {"u32", "i32", "f32", "char"} -> 4
      [] T \in {"u64", "i64", "f64"} -> 8
      [] T \in {"usize", "isize"} -> ptr \div 8

\* the engine's type of a host type: the engine has no integer type of its
\* own for usize and isize, they are its integers of pointer width
JuliaType(T, ptr) ==
    CASE T = "u8" -> "UInt8"
      [] T = "u16" -> "UInt16"
      [] T = "u32" -> "UInt32"
      [] T = "u64" -> "UInt64"
      [] T = "usize" -> IF ptr = 64 THEN "UInt64" ELSE "UInt32"
      [] T = "i8" -> "Int8"
      [] T = "i16" -> "Int16"
      [] T = "i32" -> "Int32"
      [] T = "i64" -> "Int64"
      [] T = "isize" -> IF ptr = 64 THEN "Int64" ELSE "Int32"
      [] T = "f32" -> "Float32"
      [] T = "f64" -> "Float64"
      [] T = "bool" -> "Bool"
      [] T = "char" -> "Char"

\* bit patterns of n bytes, least significant byte first: 0, 1, the largest
\* unsigned value (-1 when signed), the bit of the sign alone
Zero(n) == [i \in 1..n |-> 0]
One(n) == [i \in 1..n |-> IF i = 1 THEN 1 ELSE 0]
Ones(n) == [i \in 1..n |-> 255]
High(n) == [i \in 1..n |-> IF i = n THEN 128 ELSE 0]

\* the host values of a type that are boxed: integers and floats by their
\* bytes (1.0, 2.0 and a NaN for the floats), bool as a truth value, char as
\* a code point ('a', the first and the last)
Samples(T, ptr) ==
    CASE T = "bool" -> BOOLEAN
      [] T = "char" -> {97, 0, 1114111}
      [] T = "f32" -> {<<0, 0, 128, 63>>, <<0, 0, 0, 64>>, <<0, 0, 192, 127>>}
      [] T = "f64" -> {<<0, 0, 0, 0, 0, 0, 240, 63>>, <<0, 0, 0, 0, 0, 0, 0, 64>>,
                       <<0, 0, 0, 0, 0, 0, 248, 127>>}
      [] OTHER -> {Zero(Size(T, ptr)), One(Size(T, ptr)), Ones(Size(T, ptr)),
                   High(Size(T, ptr))}

\* the bytes of an integer or a float are stored in the opposite order
ToBits_Swapped(T, x) ==
    CASE T = "bool" -> <<IF x THEN 1 ELSE 0>>
      [] T = "char" -> <<x % 256, (x \div 256) % 256, (x \div 65536) % 256,
                         x \div 16777216>>
      [] OTHER -> [i \in 1..Len(x) |-> x[Len(x) + 1 - i]]

\* the bits handed to the engine's box function: bool as i8, char as u32
ToBits(T, x) ==
    CASE T = "bool" -> <<IF x THEN 1 ELSE 0>>
      [] T = "char" -> <<x % 256, (x \div 256) % 256, (x \div 65536) % 256,
                         x \div 16777216>>
      [] OTHER -> x

\* no char: the bits are not a Unicode scalar value
NoChar == 0 - 1

\* char::from_u32
FromU32(c) ==
    IF c <= 1114111 /\ ~(c >= 55296 /\ c <= 57343) THEN c ELSE NoChar

\* the host value read from the bits of an engine object: Bool::as_bool,
\* Char::try_as_char, the bytes of an integer or a float
FromBits(T, b) ==
    CASE T = "bool" -> b[1] # 0
      [] T = "char" -> IF b[4] > 0 THEN NoChar
                       ELSE FromU32(b[1] + 256 * b[2] + 65536 * b[3])
      [] OTHER -> b

\* Value::new(frame, x) for x of type T
IntoJulia(T, x, ptr) == [tag |-> JuliaType(T, ptr), data |-> ToBits(T, x)]

\* jl_sys/src/lib.rs 41-44: jl_typeof reads the type tag of an object
jl_typeof(v) == v.tag

\* value.is::<T>()
is(v, T, ptr) == jl_typeof(v) = JuliaType(T, ptr)

UnboxOk(T, x) == [ok |-> TRUE, ty |-> T, x |-> x]
UnboxErr == [ok |-> FALSE, ty |-> "err", x |-> <<>>]
NoResult == [ok |-> FALSE, ty |-> "none", x |-> <<>>]

\* the bits are read as T whatever the type of the object is
unbox_Unchecked(v, T, ptr) ==
    UnboxOk(T, FromBits(T, SubSeq(v.data \o Zero(8), 1, Size(T, ptr))))

\* value.unbox::<T>()
unbox(v, T, ptr) ==
    IF is(v, T, ptr)
    THEN UnboxOk(T, FromBits(T, SubSeq(v.data, 1, Size(T, ptr))))
    ELSE UnboxErr

\* tests/primitives.rs 11: the capacity of scope_with_capacity
ScopeCapacity == 5

NoHost == [ty |-> "none", x |-> <<>>]
NoObject == [tag |-> "none", data |-> <<>>]

\* no scope of primitive values is open
NoScope == [ptr |-> 0, mode |-> "none", reserved |-> 0, n |-> 0,
            from |-> NoHost, val |-> NoObject, to |-> "none",
            res |-> NoResult]

\* tests/primitives.rs 11, 41: scope_with_capacity(5, ..) and scope(..) are
\* entered, on a target of either pointer width
PrimInit ==
    \E ptr \in PointerWidths, mode \in {"capacity", "dynamic"} :
        prim = [NoScope EXCEPT !.ptr = ptr, !.mode = mode,
                               !.reserved = IF mode = "capacity"
                                            THEN ScopeCapacity ELSE 0]

\* tests/primitives.rs 12: Value::new(frame, x) roots a new engine value in
\* the frame, which grows when no reserved slot is left
ValueNew(T, x) ==
    /\ prim.mode # "none"
    /\ prim.n < MaxNew
    /\ prim' = [prim EXCEPT !.n = @ + 1,
                            !.reserved = IF @ > prim.n THEN @ ELSE prim.n + 1,
                            !.from = [ty |-> T, x |-> x],
                            !.val = IntoJulia(T, x, prim.ptr),
                            !.to = "none",
                            !.res = NoResult]
    /\ UNCHANGED <<fvars, pvars, frames, evars, mainModule>>

\* tests/primitives.rs 18, 262: value.unbox::<T>()
UnboxAs(T) ==
    /\ prim.val # NoObject
    /\ prim' = [prim EXCEPT !.to = T, !.res = unbox(prim.val, T, prim.ptr)]
    /\ UNCHANGED <<fvars, pvars, frames, evars, mainModule>>

(***************************************************************************)
(* Lookups in a module (wrappers/ptr/module.rs).  A module binds names to  *)
(* values of the engine; a value is known by its address and by the name   *)
(* of its datatype.  jl_get_global gives the value bound to a name, or a   *)
(* null pointer.                                                           *)
(***************************************************************************)
\* the names looked up
Names == {"a", "b", "c"}

\* the datatypes of the values bound in a module, with their supertype: the
\* type of a function is a subtype of Function
Supertype ==
    [ty \in {"Module", "#f", "Int64"} |->
        CASE ty = "Module" -> "Any"
          [] ty = "#f" -> "Function"
          [] ty = "Int64" -> "Signed"]

Datatypes == DOMAIN Supertype

\* the null pointer
Null == [ty |-> "null", ptr |-> ""]

\* the value bound to name n with datatype ty; its address is its binding
Bound(n, ty) == [ty |-> ty, ptr |-> n]

\* the tables of globals a module can have
Tables ==
    {[n \in Names |-> IF kinds[n] = "null" THEN Null ELSE Bound(n, kinds[n])] :
        kinds \in [Names -> Datatypes \cup {"null"}]}

\* module.rs 124, 141, 291, 302: self.name() of the module looked in
ModuleName == "Main"

\* no lookup was made
NoLookup == [tag |-> "none", data |-> Null, name |-> "", info |-> ""]

\* module.rs 153, 308, 357: Ok(target.data_from_ptr(..))
LookupOk(v) == [tag |-> "Ok", data |-> v, name |-> "", info |-> ""]

\* module.rs 137-140, 303-306: AccessError::GlobalNotFound { name, module }
GlobalNotFound(name) ==
    [tag |-> "GlobalNotFound", data |-> Null, name |-> name, info |-> ModuleName]

\* module.rs 147-150: TypeError::NotAModule { name, ty }
NotAModule(name, ty) ==
    [tag |-> "NotAModule", data |-> Null, name |-> name, info |-> ty]

\* module.rs 352-354: TypeError::NotAFunction { name, ty }
NotAFunction(name, ty) ==
    [tag |-> "NotAFunction", data |-> Null, name |-> name, info |-> ty]

\* jl_sys: jl_get_global(module, symbol), null when the name is not bound
jl_get_global(m, sym) == m[sym]

\* module.rs 399: impl_julia_typecheck!(Module, jl_module_type)
is_Module(v) == v.ty = "Module"

\* module.rs 336, 351: func.is::<Function>(), a subtype of Function
is_Function(v) == Supertype[v.ty] = "Function"

\* the global is handed out as a module without a look at its type
submodule_Unchecked(m, name) ==
    LET submodule_ == jl_get_global(m, name)
    IN  IF submodule_ = Null THEN GlobalNotFound(name)
        ELSE LookupOk(submodule_)

\* module.rs 127-155: Module::submodule
submodule(m, name) ==
    LET submodule_ == jl_get_global(m, name)
    IN  IF submodule_ = Null THEN GlobalNotFound(name)
        ELSE IF ~is_Module(submodule_)
             THEN NotAModule(name, submodule_.ty)
        ELSE LookupOk(submodule_)

\* module.rs 286-310: Module::global
global(m, name) ==
    LET global_ == jl_get_global(m, name)
    IN  IF global_ = Null THEN GlobalNotFound(name)
        ELSE LookupOk(global_)

\* module.rs 337-359: Module::function, global(..)? and then the type
function(m, name) ==
    LET found == global(m, name)
    IN  IF found.tag # "Ok" THEN found
        ELSE IF ~is_Function(found.data)
             THEN NotAFunction(name, found.data.ty)
        ELSE LookupOk(found.data)

\* a module nothing was looked up in
NoModule == [globals |-> [n \in Names |-> Null], op |-> "none",
             name |-> "", res |-> NoLookup]

\* a module with any table of globals
ModuleInit == \E m \in Tables : mainModule = [NoModule EXCEPT !.globals = m]

\* module.rs 127: module.submodule(target, name)
Submodule(name) ==
    /\ mainModule' = [mainModule EXCEPT
                          !.op = "submodule", !.name = name,
                          !.res = submodule(mainModule.globals, name)]
    /\ UNCHANGED <<fvars, pvars, frames, evars, prim>>

\* module.rs 286: module.global(target, name)
Global(name) ==
    /\ mainModule' = [mainModule EXCEPT
                          !.op = "global", !.name = name,
                          !.res = global(mainModule.globals, name)]
    /\ UNCHANGED <<fvars, pvars, frames, evars, prim>>

\* module.rs 337: module.function(target, name)
Function(name) ==
    /\ mainModule' = [mainModule EXCEPT
                          !.op = "function", !.name = name,
                          !.res = function(mainModule.globals, name)]
    /\ UNCHANGED <<fvars, pvars, frames, evars, prim>>

\* the specification of the primitive values
InitPrimitives ==
    /\ FInit /\ PInit /\ EInit /\ kind = "task" /\ PrimInit
    /\ mainModule = NoModule

NextPrimitives ==
    \/ \E T \in PrimTypes : \E x \in Samples(T, prim.ptr) : ValueNew(T, x)
    \/ \E T \in PrimTypes : UnboxAs(T)

SpecPrimitives == InitPrimitives /\ [][NextPrimitives]_vars

\* the specification of the lookups in a module
InitModule ==
    /\ FInit /\ PInit /\ EInit /\ kind = "task" /\ prim = NoScope
    /\ ModuleInit

NextModule ==
    \/ \E name \in Names : Submodule(name)
    \/ \E name \in Names : Global(name)
    \/ \E name \in Names : Function(name)

SpecModule == InitModule /\ [][NextModule]_vars

Init ==
    /\ FInit /\ PInit /\ EInit /\ kind = "persistent" /\ prim = NoScope
    /\ mainModule = NoModule

Spec == Init /\ [][Next]_vars

(* The future bridge with its threads running: a thread that holds the     *)
(* lock goes on to the end of its critical section, and a thread that      *)
(* calls lock() gets the lock once it stays free.                          *)
FairSpec ==
    /\ Spec
    /\ WF_vars(StoreLock) /\ WF_vars(StoreTask)
    /\ WF_vars(WakeLock) /\ WF_vars(WakeBody)
    /\ WF_vars(PollBody)

(***************************************************************************)
(* The persistent task envelope, internal.rs 321-365.                      *)
(*                                                                         *)
(* The user's task is a log: its State is the sequence of the inputs run   *)
(* has seen, and run's output is that sequence. Whether init and run       *)
(* return Ok or Err, and how many roots they push, is chosen freely.       *)
(* A request's input is its number.                                        *)
(***************************************************************************)
Initializing == "Initializing"
Running == "Running"
Exiting == "Exiting"
Terminated == "Terminated"

\* the states of section 4.3 in terms of the position in call
Phase(pc) ==
    CASE pc \in {"start", "init", "init_ok", "init_err", "err_sent"} -> Initializing
      [] pc \in {"recv", "run"} -> Running
      [] pc \in {"closed", "exit", "exited"} -> Exiting
      [] pc = "done" -> Terminated

\* the channel is created without a bound whatever CHANNEL_CAPACITY is
ChannelFull_Never(q) == FALSE

\* every capacity, 0 too, is passed on as a bound
NonZeroUsize_new_Some(n) == <<n>>

\* internal.rs 331: NonZeroUsize::new(P::CHANNEL_CAPACITY) is None (<<>>) for
\* 0 and Some(n) (<<n>>) for every other n
NonZeroUsize_new(n) == IF n = 0 THEN <<>> ELSE <<n>>

\* internal.rs 331: C::channel(NonZeroUsize::new(P::CHANNEL_CAPACITY)); a
\* channel made with None has no bound, one made with Some(n) holds n
\* messages
ChannelFull(q) ==
    LET bound == NonZeroUsize_new(capacity)
    IN  /\ bound # <<>>
        /\ Len(q) >= bound[1]

\* internal.rs 329-338: split, the channel, the base frame, init is called
CallInit ==
    /\ kind = "persistent"
    /\ tpc = "start"
    /\ tpc' = "init"
    /\ owner' = TRUE
    /\ calls' = [calls EXCEPT !.init = @ + 1]
    /\ UNCHANGED <<handleChan, reqRx, handles, queue, nextId, current, pstate,
                   slots, offset, responses,
                   phist,
                   cvars, fvars, frames, evars,
                   prim, mainModule>>

\* the kinds of envelope (internal.rs 252, 276, 299, 322, 400, 465, 531)
Kinds == {"task", "register", "registerPersistent", "persistent", "blocking",
          "include", "config"}

\* the envelopes whose body is user code that may open scopes of its own;
\* include's body is call_inner (434-450), config's is 537-544
UserBody == kind \notin {"include", "config"}

\* a task body is running on the Stack
InBody == tpc \in {"init", "run", "exit"} \/ epc = "body"

\* the size of the Stack when the running body was entered: the saved offset
\* for run and exit (internal.rs 342, 350, 356), the base otherwise
BodyBase == IF tpc \in {"run", "exit"} THEN offset ELSE 0

\* the Stack's high-water mark: the number of root slots in use
stackSize == Len(slots)

\* what a body roots: a value of the body that runs, in the run it runs for
RootTag ==
    [by |-> IF epc = "body" THEN "body" ELSE tpc, n |-> calls.run]

\* a slot reserved for an Output, before a value is rooted in it
EmptyOutput == [by |-> "output", n |-> NoValue]

\* the slots of the Stack that a body pushed a value to
Roots == SelectSeq(slots, LAMBDA r : r.by # "output")

\* the slots of the Stack that were reserved for an Output
Outputs == SelectSeq(slots, LAMBDA r : r.by = "output")

\* a body roots a value in its frame; the configuration task roots none
PushRoot ==
    /\ InBody
    /\ kind # "config"
    /\ Len(Roots) < BodyBase + MaxRoots
    /\ slots' = Append(slots, RootTag)
    /\ phist' = phist \cup (IF tpc = "init" THEN {"initPushed"} ELSE {})
                      \cup (IF tpc = "run" THEN {"runPushed"} ELSE {})
                      \cup (IF epc = "body" /\ frames # <<>>
                            THEN {"scopePushed"} ELSE {})
    /\ UNCHANGED <<tpc, handleChan, reqRx, handles, queue, nextId, current,
                   pstate, offset, owner, responses, calls, cvars, fvars,
                   frames, evars,
                   prim, mainModule>>

\* a body enters a nested scope: a child frame whose base is the Stack's size
EnterScope ==
    /\ InBody
    /\ UserBody
    /\ Len(frames) < MaxDepth
    /\ frames' = Append(frames, stackSize)
    /\ UNCHANGED <<tpc, handleChan, reqRx, handles, queue, nextId, current,
                   pstate, slots, offset, owner, responses, calls, phist,
                   cvars, fvars, evars,
                   prim, mainModule>>

\* the innermost scope of the body returns, with a value or with an error: the
\* Stack is truncated to the child's base; the frame run is called in is
\* call_run's to drop
ExitScope(err) ==
    /\ Len(frames) > (IF tpc = "run" THEN 1 ELSE 0)
    /\ slots' = SubSeq(slots, 1, frames[Len(frames)])
    /\ frames' = SubSeq(frames, 1, Len(frames) - 1)
    /\ phist' = phist \cup (IF epc = "body" /\ err THEN {"scopeErr"} ELSE {})
    /\ UNCHANGED <<tpc, handleChan, reqRx, handles, queue, nextId, current,
                   pstate, offset, owner, responses, calls, cvars, fvars,
                   evars,
                   prim, mainModule>>

\* tests/function.rs 15: frame.output() reserves a slot in the current frame
ReserveOutput ==
    /\ epc = "body"
    /\ UserBody
    /\ Len(Outputs) < MaxOutputs
    /\ slots' = Append(slots, EmptyOutput)
    /\ UNCHANGED <<tpc, handleChan, reqRx, handles, queue, nextId, current,
                   pstate, offset, owner, responses, calls, phist, cvars,
                   fvars, frames, evars,
                   prim, mainModule>>

\* the value is rooted in a new slot of the current frame
SetRoot_NewSlot(i, v) ==
    /\ epc = "body"
    /\ i \in 1..stackSize
    /\ slots[i] = EmptyOutput
    /\ slots' = Append(slots, [by |-> "output", n |-> v])
    /\ phist' = phist \cup (IF frames # <<>> /\ frames[Len(frames)] >= i
                            THEN {"outputNested"} ELSE {})
    /\ UNCHANGED <<tpc, handleChan, reqRx, handles, queue, nextId, current,
                   pstate, offset, owner, responses, calls, cvars, fvars,
                   frames, evars,
                   prim, mainModule>>

\* wrappers/ptr/internal/method_instance.rs 115-121, tests/function.rs 21:
\* root(output) consumes the Output and stores the pointer in its slot
SetRoot(i, v) ==
    /\ epc = "body"
    /\ i \in 1..stackSize
    /\ slots[i] = EmptyOutput
    /\ slots' = [slots EXCEPT ![i].n = v]
    /\ phist' = phist \cup (IF frames # <<>> /\ frames[Len(frames)] >= i
                            THEN {"outputNested"} ELSE {})
    /\ UNCHANGED <<tpc, handleChan, reqRx, handles, queue, nextId, current,
                   pstate, offset, owner, responses, calls, cvars, fvars,
                   frames, evars,
                   prim, mainModule>>

\* internal.rs 338-339, 359: init returns Ok(state) or Err(e)
InitReturn(ok) ==
    /\ tpc = "init"
    /\ frames = <<>>
    /\ IF ok
       THEN /\ tpc' = "init_ok"
            /\ pstate' = [live |-> TRUE, log |-> <<>>]
       ELSE /\ tpc' = "init_err"
            /\ pstate' = pstate
    /\ phist' = phist \cup (IF ok THEN {} ELSE {"initFailed"})
    /\ UNCHANGED <<handleChan, reqRx, handles, queue, nextId, current,
                   slots, offset, owner, responses, calls,
                   cvars, fvars, frames, evars,
                   prim, mainModule>>

\* the offset is taken to be the number of scopes that are open
SavedOffset_Scopes == Len(frames)

\* internal.rs 342: let offset = stack.size()
SavedOffset == stackSize

\* the handle is not sent before the loop starts
PublishHandle_NoSend ==
    /\ tpc = "init_ok"
    /\ offset' = SavedOffset
    /\ tpc' = "recv"
    /\ UNCHANGED <<handleChan, handles, reqRx, queue, nextId, current, pstate,
                   slots, owner, responses, calls,
                   phist,
                   cvars, fvars, frames, evars,
                   prim, mainModule>>

\* the handle outlives a send to a receiver that is gone
PublishHandle_Kept ==
    /\ tpc = "init_ok"
    /\ handleChan' = Append(handleChan, "handle")
    /\ handles' = 1
    /\ offset' = SavedOffset
    /\ tpc' = "recv"
    /\ UNCHANGED <<reqRx, queue, nextId, current, pstate, slots, owner,
                   responses, calls,
                   phist,
                   cvars, fvars, frames, evars,
                   prim, mainModule>>

\* internal.rs 340-342: the handle is sent, stack.size() is recorded
PublishHandle ==
    /\ tpc = "init_ok"
    /\ handleChan' = Append(handleChan, "handle")
    /\ handles' = IF reqRx = "dropped" THEN 0 ELSE 1
    /\ offset' = SavedOffset
    /\ tpc' = "recv"
    /\ UNCHANGED <<reqRx, queue, nextId, current, pstate, slots, owner,
                   responses, calls,
                   phist,
                   cvars, fvars, frames, evars,
                   prim, mainModule>>

\* CallPersistentTask::input is None once the input was taken
NoInput == 0

\* internal.rs 141-143, 351: msg.input() takes the input out of the message
\* and passes it to run
TakeInput(m) == [id |-> m.id, input |-> NoInput, arg |-> m.input]

\* the result is sent on the sender of another call
Respond_Other(msg, ok, out) ==
    [id |-> (msg.id % MaxRequests) + 1, ok |-> ok, out |-> out,
     delivered |-> ((msg.id % MaxRequests) + 1) \notin rxDropped]

\* internal.rs 137-139, 353: respond sends the result on the message's own
\* one-shot sender; it arrives unless the receiver was dropped
Respond(msg, ok, out) ==
    [id |-> msg.id, ok |-> ok, out |-> out,
     delivered |-> msg.id \notin rxDropped]

\* init is called again for every request
Recv_Reinit ==
    /\ tpc = "recv"
    /\ queue # <<>>
    /\ current' = <<TakeInput(Head(queue))>>
    /\ queue' = Tail(queue)
    /\ slots' = SubSeq(slots, 1, offset)
    /\ frames' = <<offset>>
    /\ calls' = [calls EXCEPT !.run = @ + 1, !.init = @ + 1]
    /\ tpc' = "run"
    /\ UNCHANGED <<handleChan, reqRx, handles, nextId, pstate, offset, owner,
                   responses,
                   phist,
                   cvars, fvars, evars,
                   prim, mainModule>>

\* the newest queued message is received instead of the oldest
Recv_Last ==
    /\ tpc = "recv"
    /\ queue # <<>>
    /\ current' = <<TakeInput(queue[Len(queue)])>>
    /\ queue' = SubSeq(queue, 1, Len(queue) - 1)
    /\ slots' = SubSeq(slots, 1, offset)
    /\ frames' = <<offset>>
    /\ calls' = [calls EXCEPT !.run = @ + 1]
    /\ tpc' = "run"
    /\ UNCHANGED <<handleChan, reqRx, handles, nextId, pstate, offset, owner,
                   responses, phist, cvars, fvars, evars,
                   prim, mainModule>>

\* a message is received and its run is started while a run is in progress
Recv_Concurrent ==
    /\ tpc \in {"recv", "run"}
    /\ queue # <<>>
    /\ current' = Append(current, TakeInput(Head(queue)))
    /\ queue' = Tail(queue)
    /\ slots' = SubSeq(slots, 1, offset)
    /\ frames' = <<offset>>
    /\ calls' = [calls EXCEPT !.run = @ + 1]
    /\ tpc' = "run"
    /\ UNCHANGED <<handleChan, reqRx, handles, nextId, pstate, offset, owner,
                   responses, phist, cvars, fvars, evars,
                   prim, mainModule>>

\* a new base frame is entered for every request
Recv_Rebase ==
    /\ tpc = "recv"
    /\ queue # <<>>
    /\ current' = <<TakeInput(Head(queue))>>
    /\ queue' = Tail(queue)
    /\ slots' = SubSeq(slots, 1, 0)
    /\ frames' = <<0>>
    /\ calls' = [calls EXCEPT !.run = @ + 1]
    /\ tpc' = "run"
    /\ pstate' = pstate
    /\ UNCHANGED <<handleChan, reqRx, handles, nextId, offset, owner,
                   responses,
                   phist,
                   cvars, fvars, evars,
                   prim, mainModule>>

\* run is called on a state made anew for the request
Recv_NewState ==
    /\ tpc = "recv"
    /\ queue # <<>>
    /\ current' = <<TakeInput(Head(queue))>>
    /\ queue' = Tail(queue)
    /\ slots' = SubSeq(slots, 1, offset)
    /\ frames' = <<offset>>
    /\ calls' = [calls EXCEPT !.run = @ + 1]
    /\ tpc' = "run"
    /\ pstate' = [live |-> TRUE, log |-> <<>>]
    /\ UNCHANGED <<handleChan, reqRx, handles, nextId, offset, owner,
                   responses,
                   phist,
                   cvars, fvars, evars,
                   prim, mainModule>>

\* internal.rs 345-351, 109-110: a message is received, the frame is
\* reconstructed at the saved offset, the input is taken and run is called in
\* a frame nested in it
Recv ==
    /\ tpc = "recv"
    /\ queue # <<>>
    /\ current' = <<TakeInput(Head(queue))>>
    /\ queue' = Tail(queue)
    /\ slots' = SubSeq(slots, 1, offset)
    /\ frames' = <<offset>>
    /\ calls' = [calls EXCEPT !.run = @ + 1]
    /\ tpc' = "run"
    /\ UNCHANGED <<handleChan, reqRx, handles, nextId, pstate, offset, owner,
                   responses,
                   phist,
                   cvars, fvars, evars,
                   prim, mainModule>>

\* an Err returned by run ends the loop
RunReturn_ErrBreaks(ok) ==
    /\ tpc = "run"
    /\ Len(frames) = 1
    /\ frames' = <<>>
    /\ LET msg == current[1]
           log == Append(pstate.log, msg.arg)
       IN  /\ pstate' = [pstate EXCEPT !.log = log]
           /\ responses' = Append(responses, Respond(msg, ok, log))
    /\ current' = <<>>
    /\ slots' = SubSeq(slots, 1, offset)
    /\ tpc' = IF ok THEN "recv" ELSE "closed"
    /\ UNCHANGED <<handleChan, reqRx, handles, queue, nextId, offset, owner,
                   calls,
                   phist,
                   cvars, fvars, evars,
                   prim, mainModule>>

\* internal.rs 110-112, 351-353: run returns, the nested frame is dropped and
\* the result is sent on the message's one-shot sender
RunReturn(ok) ==
    /\ tpc = "run"
    /\ Len(frames) = 1
    /\ frames' = <<>>
    /\ LET msg == current[1]
           log == Append(pstate.log, msg.arg)
       IN  /\ pstate' = [pstate EXCEPT !.log = log]
           /\ responses' = Append(responses, Respond(msg, ok, log))
    /\ current' = <<>>
    /\ slots' = SubSeq(slots, 1, offset)
    /\ tpc' = "recv"
    /\ UNCHANGED <<handleChan, reqRx, handles, queue, nextId, offset, owner,
                   calls,
                   phist,
                   cvars, fvars, evars,
                   prim, mainModule>>

\* the loop falls through to the end of call without calling exit
RecvClosed_SkipExit ==
    /\ tpc = "recv"
    /\ queue = <<>>
    /\ handles = 0
    /\ tpc' = "done"
    /\ owner' = FALSE
    /\ slots' = SubSeq(slots, 1, 0)
    /\ UNCHANGED <<handleChan, reqRx, handles, queue, nextId, current, pstate,
                   offset, responses, calls,
                   phist,
                   cvars, fvars, frames, evars,
                   prim, mainModule>>

\* the loop ends as soon as no message is queued (try_recv)
RecvClosed_OnEmpty ==
    /\ tpc = "recv"
    /\ queue = <<>>
    /\ tpc' = "closed"
    /\ phist' = phist \cup {"closed"}
    /\ UNCHANGED <<handleChan, reqRx, handles, queue, nextId, current, pstate,
                   slots, offset, owner, responses, calls,
                   cvars, fvars, frames, evars,
                   prim, mainModule>>

\* recv reports the channel closed while one handle is left
RecvClosed_OneLeft ==
    /\ tpc = "recv"
    /\ queue = <<>>
    /\ handles <= 1
    /\ tpc' = "closed"
    /\ phist' = phist \cup {"closed"}
    /\ UNCHANGED <<handleChan, reqRx, handles, queue, nextId, current, pstate,
                   slots, offset, owner, responses, calls,
                   cvars, fvars, frames, evars,
                   prim, mainModule>>

\* recv reports the channel closed as soon as the last handle is gone
RecvClosed_DropsQueued ==
    /\ tpc = "recv"
    /\ handles = 0
    /\ tpc' = "closed"
    /\ phist' = phist \cup {"closed"}
    /\ UNCHANGED <<handleChan, reqRx, handles, queue, nextId, current, pstate,
                   slots, offset, owner, responses, calls,
                   cvars, fvars, frames, evars,
                   prim, mainModule>>

\* internal.rs 345-347: recv reports the channel closed, break
RecvClosed ==
    /\ tpc = "recv"
    /\ queue = <<>>
    /\ handles = 0
    /\ tpc' = "closed"
    /\ phist' = phist \cup {"closed"}
    /\ UNCHANGED <<handleChan, reqRx, handles, queue, nextId, current, pstate,
                   slots, offset, owner, responses, calls,
                   cvars, fvars, frames, evars,
                   prim, mainModule>>

\* internal.rs 356-357: the frame is reconstructed and exit is called
CallExit ==
    /\ tpc = "closed"
    /\ slots' = SubSeq(slots, 1, offset)
    /\ calls' = [calls EXCEPT !.exit = @ + 1]
    /\ tpc' = "exit"
    /\ UNCHANGED <<handleChan, reqRx, handles, queue, nextId, current, pstate,
                   offset, owner, responses,
                   phist,
                   cvars, fvars, frames, evars,
                   prim, mainModule>>

\* internal.rs 357-358: exit returns, the state is dropped
ExitReturn ==
    /\ tpc = "exit"
    /\ frames = <<>>
    /\ pstate' = [pstate EXCEPT !.live = FALSE]
    /\ tpc' = "exited"
    /\ UNCHANGED <<handleChan, reqRx, handles, queue, nextId, current,
                   slots, offset, owner, responses, calls,
                   phist,
                   cvars, fvars, frames, evars,
                   prim, mainModule>>

\* the error is sent and the loop is entered all the same
SendInitError_ThenLoop ==
    /\ tpc = "init_err"
    /\ handleChan' = Append(handleChan, "err")
    /\ tpc' = "recv"
    /\ UNCHANGED <<reqRx, handles, queue, nextId, current, pstate, slots,
                   offset, owner, responses, calls,
                   phist,
                   cvars, fvars, frames, evars,
                   prim, mainModule>>

\* internal.rs 359: Err(e) => handle_sender.send(Err(e))
SendInitError ==
    /\ tpc = "init_err"
    /\ handleChan' = Append(handleChan, "err")
    /\ tpc' = "err_sent"
    /\ UNCHANGED <<reqRx, handles, queue, nextId, current, pstate, slots,
                   offset, owner, responses, calls,
                   phist,
                   cvars, fvars, frames, evars,
                   prim, mainModule>>

\* internal.rs 362-364: the base frame's owner is dropped, call returns
DropOwner ==
    /\ tpc \in {"exited", "err_sent"}
    /\ owner' = FALSE
    /\ slots' = SubSeq(slots, 1, 0)
    /\ tpc' = "done"
    /\ UNCHANGED <<handleChan, reqRx, handles, queue, nextId, current, pstate,
                   offset, responses, calls,
                   phist,
                   cvars, fvars, frames, evars,
                   prim, mainModule>>

(***************************************************************************)
(* The other side of the channels: the requester of the persistent task    *)
(* and the holders of its handle.                                          *)
(***************************************************************************)
\* the requester receives what was sent on the handle channel
RequesterRecv ==
    /\ reqRx = "waiting"
    /\ handleChan # <<>>
    /\ reqRx' = "got"
    /\ UNCHANGED <<tpc, handleChan, handles, queue, nextId, current, pstate,
                   slots, offset, owner, responses, calls,
                   phist,
                   cvars, fvars, frames, evars,
                   prim, mainModule>>

\* the requester drops its end of the handle channel, and with it a handle
\* that was sent and not received
RequesterDrop ==
    /\ reqRx = "waiting"
    /\ reqRx' = "dropped"
    /\ handles' = IF handleChan = <<"handle">> THEN 0 ELSE handles
    /\ phist' = phist \cup (IF tpc \in {"start", "init"}
                            THEN {"droppedEarly"} ELSE {})
    /\ UNCHANGED <<tpc, handleChan, queue, nextId, current, pstate, slots,
                   offset, owner, responses, calls,
                   cvars, fvars, frames, evars,
                   prim, mainModule>>

\* PersistentHandle is cloned
CloneHandle ==
    /\ reqRx = "got"
    /\ handles >= 1
    /\ handles < MaxHandles
    /\ handles' = handles + 1
    /\ UNCHANGED <<tpc, handleChan, reqRx, queue, nextId, current, pstate,
                   slots, offset, owner, responses, calls,
                   phist,
                   cvars, fvars, frames, evars,
                   prim, mainModule>>

\* a PersistentHandle is dropped
DropHandle ==
    /\ reqRx = "got"
    /\ handles >= 1
    /\ handles > 1 \/ waiting = {}
    /\ handles' = handles - 1
    /\ phist' = phist \cup (IF handles = 1 /\ queue # <<>>
                            THEN {"queuedAtClose"} ELSE {})
    /\ UNCHANGED <<tpc, handleChan, reqRx, queue, nextId, current, pstate,
                   slots, offset, owner, responses, calls,
                   cvars, fvars, frames, evars,
                   prim, mainModule>>

\* PersistentHandle::call: a holder of a handle sends the next request; when
\* the channel is full the send is suspended
SendRequest ==
    /\ reqRx = "got"
    /\ handles >= 1
    /\ nextId < MaxRequests
    /\ nextId' = nextId + 1
    /\ IF ChannelFull(queue)
       THEN /\ waiting' = waiting \cup {nextId + 1}
            /\ phist' = phist \cup {"suspended"}
            /\ UNCHANGED <<queue, accepted>>
       ELSE /\ queue' = Append(queue, [id |-> nextId + 1, input |-> nextId + 1])
            /\ accepted' = Append(accepted, nextId + 1)
            /\ UNCHANGED <<waiting, phist>>
    /\ UNCHANGED <<tpc, handleChan, reqRx, handles, current, pstate,
                   slots, offset, owner, responses, calls,
                   capacity, rxDropped, fvars, frames, evars,
                   prim, mainModule>>

\* a suspended send goes on once the channel has room
SendResume(id) ==
    /\ id \in waiting
    /\ ~ChannelFull(queue)
    /\ waiting' = waiting \ {id}
    /\ queue' = Append(queue, [id |-> id, input |-> id])
    /\ accepted' = Append(accepted, id)
    /\ UNCHANGED <<tpc, handleChan, reqRx, handles, nextId, current, pstate,
                   slots, offset, owner, responses, calls,
                   phist,
                   capacity, rxDropped, fvars, frames, evars,
                   prim, mainModule>>

\* the caller drops the receiving end of the response channel of a request
\* that was sent and is not answered yet
DropReceiver(id) ==
    /\ id \notin rxDropped
    /\ \/ \E i \in 1..Len(queue) : queue[i].id = id
       \/ current # <<>> /\ current[1].id = id
    /\ rxDropped' = rxDropped \cup {id}
    /\ UNCHANGED <<tpc, handleChan, reqRx, handles, queue, nextId, current,
                   pstate, slots, offset, owner, responses, calls,
                   phist,
                   capacity, waiting, accepted, fvars, frames, evars,
                   prim, mainModule>>

(***************************************************************************)
(* The one-shot envelopes: task, registration, blocking, include and        *)
(* configuration.  Each enters the base frame, runs its body, drops the     *)
(* frame's owner and sends the result.                                      *)
(***************************************************************************)
\* internal.rs 264-266, 288-289, 311-312, 411-412, 469-470, 535-537: the base
\* frame is entered and the body is called
EnvBase ==
    /\ kind # "persistent"
    /\ epc = "start"
    /\ owner' = TRUE
    /\ epc' = "body"
    /\ UNCHANGED <<tpc, handleChan, reqRx, handles, queue, nextId, current,
                   pstate, slots, offset, responses, calls, phist, cvars,
                   fvars, frames, kind, eres, resRx, resChan,
                   included,
                   prim, mainModule>>

\* internal.rs 266, 289, 312, 391, 537-544: the body returns Ok or Err
EnvBodyReturn(ok) ==
    /\ kind # "include"
    /\ epc = "body"
    /\ frames = <<>>
    /\ eres' = IF ok THEN "ok" ELSE "err"
    /\ epc' = "returned"
    /\ UNCHANGED <<tpc, handleChan, reqRx, handles, queue, nextId, current,
                   pstate, slots, offset, owner, responses, calls, phist,
                   cvars, fvars, frames, kind, resRx, resChan,
                   included,
                   prim, mainModule>>

\* what Module::function finds under the name include in Main
\* (wrappers/ptr/module.rs 349-357)
Lookups == {"function", "missing", "notFunction"}

\* format!("{:?}", value): the description of a raised value
Debug(v) == <<"Value", v>>

\* JlrsError::exception(msg)
Exception(msg) == <<"Exception", msg>>

\* the result of a body: Ok(()) or Err(error)
Ok == [ok |-> TRUE, error |-> <<>>]
Err(e) == [ok |-> FALSE, error |-> e]

\* a path that is not UTF-8 is an error
call_inner_PathErr(validPath, lookup, exc) ==
    IF ~validPath THEN Err(<<"InvalidPath">>)
    ELSE IF lookup = "missing" THEN Err(<<"GlobalNotFound", "include">>)
    ELSE IF lookup = "notFunction" THEN Err(<<"NotAFunction", "include">>)
    ELSE IF exc # NoValue THEN Err(Exception(<<"Include error: ", Debug(exc)>>))
    ELSE Ok

\* the exception raised by include is discarded
call_inner_Discard(validPath, lookup, exc) ==
    IF ~validPath THEN Ok
    ELSE IF lookup = "missing" THEN Err(<<"GlobalNotFound", "include">>)
    ELSE IF lookup = "notFunction" THEN Err(<<"NotAFunction", "include">>)
    ELSE Ok

\* internal.rs 434-450: the path is converted, include is looked up in Main
\* and called with the path; exc is the value the call raised, NoValue when
\* it raised none
call_inner(validPath, lookup, exc) ==
    IF ~validPath THEN Ok
    ELSE IF lookup = "missing" THEN Err(<<"GlobalNotFound", "include">>)
    ELSE IF lookup = "notFunction" THEN Err(<<"NotAFunction", "include">>)
    ELSE IF exc # NoValue THEN Err(Exception(<<"Include error: ", Debug(exc)>>))
    ELSE Ok

\* internal.rs 452-458, 470: the include task's body returns what call_inner
\* returned
IncludeReturn(validPath, lookup, exc) ==
    /\ kind = "include"
    /\ epc = "body"
    /\ frames = <<>>
    /\ LET res == call_inner(validPath, lookup, exc)
           called == validPath /\ lookup = "function"
       IN /\ eres' = IF res.ok THEN "ok" ELSE "err"
          /\ included' = [called |-> called,
                          raised |-> IF called THEN exc ELSE NoValue,
                          error |-> res.error]
    /\ epc' = "returned"
    /\ UNCHANGED <<tpc, handleChan, reqRx, handles, queue, nextId, current,
                   pstate, slots, offset, owner, responses, calls, phist,
                   cvars, fvars, frames, kind, resRx, resChan,
                   prim, mainModule>>

\* the owner is forgotten and the Stack keeps the body's roots
EnvDropOwner_Forget ==
    /\ epc = "returned"
    /\ owner' = FALSE
    /\ epc' = "dropped"
    /\ UNCHANGED <<tpc, handleChan, reqRx, handles, queue, nextId, current,
                   pstate, slots, offset, responses, calls, phist, cvars,
                   fvars, frames, kind, eres, resRx, resChan,
                   included,
                   prim, mainModule>>

\* internal.rs 267, 290, 313, 413, 471, 545: drop(owner) releases the base frame
EnvDropOwner ==
    /\ epc = "returned"
    /\ owner' = FALSE
    /\ slots' = SubSeq(slots, 1, 0)
    /\ epc' = "dropped"
    /\ UNCHANGED <<tpc, handleChan, reqRx, handles, queue, nextId, current,
                   pstate, offset, responses, calls, phist, cvars, fvars,
                   frames, kind, eres, resRx, resChan,
                   included,
                   prim, mainModule>>

\* the result is sent only when the body returned Ok
EnvSend_OnlyOk ==
    /\ epc = "dropped"
    /\ resChan' = IF eres = "ok"
                  THEN Append(resChan, [ok |-> TRUE,
                                        delivered |-> resRx = "alive"])
                  ELSE resChan
    /\ epc' = "done"
    /\ UNCHANGED <<tpc, handleChan, reqRx, handles, queue, nextId, current,
                   pstate, slots, offset, owner, responses, calls, phist,
                   cvars, fvars, frames, kind, eres, resRx,
                   included,
                   prim, mainModule>>

\* the result is sent only to a live receiver, the call stops otherwise
EnvSend_Unwrap ==
    /\ epc = "dropped"
    /\ IF resRx = "alive"
       THEN /\ resChan' = Append(resChan, [ok |-> eres = "ok", delivered |-> TRUE])
            /\ epc' = "done"
       ELSE /\ resChan' = resChan
            /\ epc' = "panicked"
    /\ UNCHANGED <<tpc, handleChan, reqRx, handles, queue, nextId, current,
                   pstate, slots, offset, owner, responses, calls, phist,
                   cvars, fvars, frames, kind, eres, resRx,
                   included,
                   prim, mainModule>>

\* the result is sent while the frame's owner is still alive
EnvSend_Early ==
    /\ epc = "returned"
    /\ resChan' = Append(resChan, [ok |-> eres = "ok",
                                   delivered |-> resRx = "alive"])
    /\ epc' = "done"
    /\ UNCHANGED <<tpc, handleChan, reqRx, handles, queue, nextId, current,
                   pstate, slots, offset, owner, responses, calls, phist,
                   cvars, fvars, frames, kind, eres, resRx,
                   included,
                   prim, mainModule>>

\* internal.rs 271, 294, 317, 417, 481, 546: the result is sent on the result
\* channel and call returns; a send to a dropped receiver is discarded
EnvSend ==
    /\ epc = "dropped"
    /\ resChan' = Append(resChan, [ok |-> eres = "ok",
                                   delivered |-> resRx = "alive"])
    /\ epc' = "done"
    /\ UNCHANGED <<tpc, handleChan, reqRx, handles, queue, nextId, current,
                   pstate, slots, offset, owner, responses, calls, phist,
                   cvars, fvars, frames, kind, eres, resRx,
                   included,
                   prim, mainModule>>

\* the submitter drops its end of the result channel
ResultRxDrop ==
    /\ kind # "persistent"
    /\ resRx = "alive"
    /\ epc # "done"
    /\ resRx' = "dropped"
    /\ UNCHANGED <<tpc, handleChan, reqRx, handles, queue, nextId, current,
                   pstate, slots, offset, owner, responses, calls, phist,
                   cvars, fvars, frames, kind, epc, eres, resChan,
                   included,
                   prim, mainModule>>

NextPersistent ==
    \/ CallInit
    \/ PushRoot
    \/ EnterScope
    \/ \E err \in BOOLEAN : ExitScope(err)
    \/ \E ok \in BOOLEAN : InitReturn(ok)
    \/ PublishHandle
    \/ Recv
    \/ \E ok \in BOOLEAN : RunReturn(ok)
    \/ RecvClosed
    \/ CallExit
    \/ ExitReturn
    \/ SendInitError
    \/ DropOwner
    \/ RequesterRecv
    \/ RequesterDrop
    \/ CloneHandle
    \/ DropHandle
    \/ SendRequest
    \/ \E id \in 1..MaxRequests : SendResume(id)
    \/ \E id \in 1..MaxRequests : DropReceiver(id)

SpecPersistent == Init /\ [][NextPersistent]_vars

(* The persistent task under the scheduling its executors give: the loop    *)
(* is polled when a message is there, a suspended send is polled when the   *)
(* channel has room, and run is a body that returns: its scopes are left    *)
(* and it comes to its end.                                                 *)
FairPersistent ==
    /\ SpecPersistent
    /\ WF_vars(Recv)
    /\ \A d \in 1..(MaxDepth - 1) :
            SF_vars(\E err \in BOOLEAN :
                        tpc = "run" /\ ExitScope(err) /\ Len(frames') = d)
    /\ SF_vars(\E ok \in BOOLEAN : RunReturn(ok))
    /\ WF_vars(\E id \in 1..MaxRequests : SendResume(id))

(* The persistent task when, besides, exit is a body that returns and the   *)
(* envelope's own steps are taken: the handle is published, a closed        *)
(* channel is reported, exit is called, the frame's owner is dropped.       *)
FairTermination ==
    /\ FairPersistent
    /\ WF_vars(PublishHandle)
    /\ WF_vars(RecvClosed)
    /\ WF_vars(CallExit)
    /\ \A d \in 0..(MaxDepth - 1) :
            SF_vars(\E err \in BOOLEAN :
                        tpc = "exit" /\ ExitScope(err) /\ Len(frames') = d)
    /\ SF_vars(ExitReturn)
    /\ WF_vars(DropOwner)

(* The specification of every envelope called on a Stack. *)
InitEnvelope ==
    /\ FInit /\ PInit /\ EInit /\ kind \in Kinds /\ prim = NoScope
    /\ mainModule = NoModule

NextEnvelope ==
    \/ NextPersistent
    \/ EnvBase
    \/ \E ok \in BOOLEAN : EnvBodyReturn(ok)
    \/ \E validPath \in BOOLEAN, lookup \in Lookups, exc \in {NoValue} \cup Values :
            IncludeReturn(validPath, lookup, exc)
    \/ EnvDropOwner
    \/ EnvSend
    \/ ResultRxDrop

SpecEnvelope == InitEnvelope /\ [][NextEnvelope]_vars

(* The specification of a body that reserves Outputs in its frames and     *)
(* roots values in them from nested scopes.                                *)
InitScope ==
    /\ FInit /\ PInit /\ EInit /\ kind \in {"task", "blocking"} /\ prim = NoScope
    /\ mainModule = NoModule

NextScope ==
    \/ EnvBase
    \/ PushRoot
    \/ EnterScope
    \/ \E err \in BOOLEAN : ExitScope(err)
    \/ ReserveOutput
    \/ \E i \in 1..(MaxRoots + MaxOutputs), v \in Values : SetRoot(i, v)
    \/ \E ok \in BOOLEAN : EnvBodyReturn(ok)
    \/ EnvDropOwner
    \/ EnvSend
    \/ ResultRxDrop

SpecScope == InitScope /\ [][NextScope]_vars

(***************************************************************************)
(* The claims about the future bridge.                                     *)
(***************************************************************************)
TaskSet == shared_state.task # NoTask

InWoken(w) == \E i \in 1..Len(woken) : woken[i] = w

\* C1 (as stated): task is set at most once, it is set before completed can
\* become true (completed = true implies task is set in every reachable
\* state), and it is never cleared once set.
C1_TaskBeforeCompleted ==
    /\ [](shared_state.completed => TaskSet)
    /\ [][shared_state.task' # shared_state.task
            => shared_state.task = NoTask /\ cpc = "locked"]_vars

\* C1 (amended): task is set at most once, by the constructor, it is never
\* cleared, and it is set before the JuliaFuture exists; completed may become
\* true before task is set.
C1_TaskBeforeFuture ==
    /\ [](fut # "none" => TaskSet)
    /\ [][shared_state.task' # shared_state.task
            => shared_state.task = NoTask /\ cpc = "locked"]_vars

\* C1: wake_task ran before the constructor stored the task, and the future
\* has been returned
C1_Witness ==
    /\ "completedBeforeTask" \in hist
    /\ fut = "live"
    /\ shared_state.completed
    /\ TaskSet

\* C2: no wake-up is lost: when the most recent poll before wake_task
\* returned Pending, wake_task wakes the waker passed to that poll, and a poll
\* that starts after wake_task has run returns Ready.
C2_NoLostWakeup ==
    /\ (wpc = "done" /\ shared_state.completed /\ pendingWaker # NoWaker)
            => InWoken(pendingWaker)
    /\ ("pollAfterWake" \in hist /\ pollpc = "idle" /\ shared_state.completed)
            => Resolved

\* C3: after a poll that found the task incomplete and returned Pending, the
\* stored waker is the one passed to that (most recent) poll.
C3_StoresLatestWaker ==
    (pollResult = "Pending" /\ pollpc = "idle" /\ ~shared_state.completed)
        => shared_state.waker = pendingWaker

\* C4: when wake_task has run before the first poll, that poll returns Ready
\* and leaves the waker field empty.
C4_FirstPollAfterWake ==
    ("firstPollAfterWake" \in hist /\ polls = 1 /\ pollpc = "idle")
        => (Resolved /\ shared_state.waker = NoWaker /\ woken = <<>>)

\* C4: the first poll came after wake_task and has returned
C4_Witness ==
    /\ "firstPollAfterWake" \in hist
    /\ polls = 1
    /\ pollpc = "idle"
    /\ Resolved

\* C5: a poll of a completed future returns Ready(Ok) exactly when the task's
\* function returned a value and Ready(Err) exactly when it raised.
C5_DisjointOutcome ==
    /\ pollResult = "ReadyOk" => outcome = "value"
    /\ pollResult = "ReadyErr" => outcome = "raised"
    /\ ("pollAfterWake" \in hist /\ pollpc = "idle" /\ shared_state.completed)
            => Resolved

\* C5: a task that raised has been fetched
C5_Witness ==
    /\ pollResult = "ReadyErr"
    /\ outcome = "raised"

\* C6: when the scheduling call raises, the constructor panics: no future is
\* returned, the task handle is never stored, nothing is scheduled and no
\* poll ever returns a result.
C6_ScheduleFailureFatal ==
    "scheduleRaised" \in hist
        => /\ cpc = "panicked"
           /\ fut = "none"
           /\ ~TaskSet
           /\ engine = "idle"
           /\ pollResult = "none"

\* C6: the scheduling call has raised
C6_Witness ==
    /\ "scheduleRaised" \in hist
    /\ cpc = "panicked"

\* C7 (as stated): the constructor, poll and wake_task all panic when they
\* find the lock poisoned.
C7_PoisonAlwaysFatal ==
    /\ "newPoisoned" \in hist => cpc = "panicked"
    /\ "pollPoisoned" \in hist => (pollResult = "panic" /\ "pollWentOn" \notin hist)
    /\ "wakePoisoned" \in hist => wpc = "panicked"

\* C7 (amended): the constructor and poll panic when they find the lock
\* poisoned; wake_task returns without a panic, leaving completed false and
\* waking nobody.
C7_PoisonFatalExceptWake ==
    /\ "newPoisoned" \in hist => cpc = "panicked"
    /\ "pollPoisoned" \in hist => (pollResult = "panic" /\ "pollWentOn" \notin hist)
    /\ "wakePoisoned" \in hist
            => (wpc = "done" /\ ~shared_state.completed /\ woken = <<>>)

\* C7: both a poll and wake_task have found the lock poisoned
C7_Witness ==
    /\ "pollPoisoned" \in hist
    /\ "wakePoisoned" \in hist

\* C8: after a submission the state has two owners, the future and the
\* reference handed to the engine; it is destroyed exactly when the future
\* was dropped and wake_task has run; dropping the future changes nothing on
\* the engine's side.
C8_TwoOwners ==
    /\ [](cpc \in {"scheduled", "locked", "stored", "returned"}
            => /\ strong = (IF fut = "dropped" THEN 0 ELSE 1)
                         + (IF wpc = "done" THEN 0 ELSE 1)
               /\ (strong = 0 <=> (fut = "dropped" /\ wpc = "done")))
    /\ [][fut' # fut /\ fut' = "dropped"
            => UNCHANGED <<engine, outcome, wpc, shared_state>>]_vars

\* C8: the future was dropped before wake_task ran, and wake_task then ran
C8_Witness ==
    /\ "droppedBeforeWake" \in hist
    /\ wpc = "done"
    /\ shared_state.completed
    /\ strong = 0

(***************************************************************************)
(* The claims about the persistent task.                                   *)
(***************************************************************************)
PhaseSteps ==
    { <<Initializing, Running>>, <<Running, Exiting>>,
      <<Exiting, Terminated>>, <<Initializing, Terminated>> }

\* C9: a persistent task moves only along Initializing -> Running -> Exiting
\* -> Terminated or Initializing -> Terminated; Terminated is absorbing.
C9_Lifecycle ==
    [][Phase(tpc') # Phase(tpc) => <<Phase(tpc), Phase(tpc')>> \in PhaseSteps]_vars

\* C9: a task that served a request has gone through all four states
C9_Witness ==
    /\ tpc = "done"
    /\ calls.exit = 1
    /\ calls.run >= 1

\* C10: when init returns an error, the error is what is sent on the handle
\* channel, no handle is published, run and exit are never invoked, and the
\* envelope goes on to release its base frame and to return.
C10_InitFailure ==
    "initFailed" \in phist
        => /\ tpc \in {"init_err", "err_sent", "done"}
           /\ handleChan = IF tpc = "init_err" THEN <<>> ELSE <<"err">>
           /\ handles = 0
           /\ calls = [init |-> 1, run |-> 0, exit |-> 0]
           /\ owner = (tpc # "done")
           /\ tpc = "done" => stackSize = 0
           /\ tpc = "init_err" => ENABLED SendInitError
           /\ tpc = "err_sent" => ENABLED DropOwner

\* C10: init pushed a root and failed, and the envelope has returned
C10_Witness ==
    /\ "initFailed" \in phist
    /\ "initPushed" \in phist
    /\ tpc = "done"

InitReturned == tpc \notin {"start", "init"}

\* C11: exactly one message is sent on the handle channel on every path; when
\* init succeeds it is the handle, sent after init returned and before the
\* loop first waits for a request.
C11_OneHandle ==
    /\ Len(handleChan) <= 1
    /\ tpc \in {"start", "init", "init_ok", "init_err"} => handleChan = <<>>
    /\ tpc \in {"recv", "run", "closed", "exit", "exited"} => handleChan = <<"handle">>
    /\ tpc = "err_sent" => handleChan = <<"err">>
    /\ tpc = "done" => Len(handleChan) = 1
    /\ (InitReturned /\ "initFailed" \notin phist /\ tpc # "init_ok")
            => handleChan = <<"handle">>

\* C11: the handle was sent and the loop waits for its first request
C11_Witness ==
    /\ tpc = "recv"
    /\ calls.run = 0
    /\ handleChan = <<"handle">>

\* C12: init is invoked exactly once, before any run, however many requests
\* are served.
C12_InitOnce ==
    /\ calls.init <= 1
    /\ tpc # "start" => calls.init = 1
    /\ calls.run > 0 => (calls.init = 1 /\ InitReturned /\ "initFailed" \notin phist)

\* C12: two requests were served after one init
C12_Witness ==
    /\ calls.run >= 2
    /\ calls.init = 1

\* C13: when init succeeded exit is invoked exactly once, only after the
\* request channel reported closed, and no run is invoked once exit has
\* started; exit is never invoked when init failed.
C13_ExitOnce ==
    /\ [](/\ calls.exit <= 1
          /\ calls.exit = 1 <=> tpc \in {"exit", "exited", "done"} /\ "initFailed" \notin phist
          /\ calls.exit = 1 => (handles = 0 /\ queue = <<>> /\ "closed" \in phist)
          /\ "initFailed" \in phist => calls.exit = 0)
    /\ [][calls.exit >= 1 => calls.run' = calls.run]_vars

\* C13: exit is running after a request was served
C13_Witness ==
    /\ tpc = "exit"
    /\ calls.exit = 1
    /\ calls.run >= 1

IsPrefix(a, b) == Len(a) <= Len(b) /\ \A i \in 1..Len(a) : a[i] = b[i]

\* the ids of the messages the loop has received, in the order of receipt
Served ==
    [i \in 1..Len(responses) |-> responses[i].id]
        \o [i \in 1..Len(current) |-> current[i].id]

\* C14: requests are served one at a time in the order the channel delivers
\* them: at most one run is in progress, and the run for the next received
\* message starts only after the response to the previous one was sent, also
\* while run is suspended.
C14_OneAtATime ==
    /\ [](/\ Len(current) <= 1
          /\ (tpc = "run") <=> (current # <<>>)
          /\ calls.run = Len(responses) + Len(current)
          /\ IsPrefix(Served, accepted))
    /\ [][calls.run' > calls.run
            => /\ current = <<>>
               /\ Len(responses) = calls.run
               /\ Served' = Append(Served, Head(queue).id)]_vars

\* C14: the second run is in progress after the first response was sent,
\* while a third request is queued
C14_Witness ==
    /\ tpc = "run"
    /\ Len(responses) = 1
    /\ queue # <<>>

Increasing(q) == \A i, j \in 1..Len(q) : i < j => q[i] < q[j]

\* the ids of the queued messages, oldest first
Queued == [i \in 1..Len(queue) |-> queue[i].id]

\* C15 (as stated): the loop observes the requests in the order the calls
\* were made (ids are given in that order), also when submitters are suspended
\* on a full channel.
C15_CallOrder == Increasing(Served)

\* C15 (amended): the loop observes the requests in the order the request
\* channel accepted them; that is the order of the calls as long as no
\* submitter was suspended on a full channel.
C15_ChannelOrder ==
    /\ Served \o Queued = accepted
    /\ "suspended" \notin phist => Increasing(Served \o Queued)

\* C15: a submitter suspended on a full channel was overtaken by a later call
C15_Witness ==
    /\ "suspended" \in phist
    /\ \E i \in 1..(Len(Served) - 1) : Served[i] > Served[i + 1]

Responded(id) == \E i \in 1..Len(responses) : responses[i].id = id

\* in how many places request id is: suspended, queued, being served, answered
Places(id) ==
    (IF id \in waiting THEN 1 ELSE 0)
    + Cardinality({i \in 1..Len(queue) : queue[i].id = id})
    + Cardinality({i \in 1..Len(current) : current[i].id = id})
    + Cardinality({i \in 1..Len(responses) : responses[i].id = id})

\* C16: with capacity N >= 1 at most N requests are queued; a call that finds
\* the channel full is suspended, neither rejected nor dropped, and its send
\* goes on once the loop has received a message and the channel has room;
\* every call made is eventually answered (with capacity 1 and two calls, the
\* second is suspended until the first was received and both complete).
C16_Backpressure ==
    /\ [](/\ capacity >= 1 => Len(queue) <= capacity
          /\ \A id \in 1..MaxRequests :
                /\ Places(id) = (IF id <= nextId THEN 1 ELSE 0)
                /\ (id \in waiting /\ ~ChannelFull(queue))
                        => ENABLED SendResume(id))
    /\ [][/\ (nextId' = nextId + 1 /\ capacity >= 1 /\ Len(queue) >= capacity)
               => (nextId' \in waiting' /\ queue' = queue)
          /\ \A id \in waiting \ waiting' :
               /\ Len(queue) < capacity
               /\ queue' = Append(queue, [id |-> id, input |-> id])]_vars
    /\ []<>(\A id \in 1..MaxRequests : id <= nextId => Responded(id))

\* C16: capacity 1 and two calls: the second was suspended, both are answered
C16_Witness ==
    /\ capacity = 1
    /\ nextId = 2
    /\ "suspended" \in phist
    /\ Responded(1)
    /\ Responded(2)

\* C17: every message the loop received had its input taken once and passed
\* to run, and gets exactly one response: the result of run on that message's
\* own input, sent on the sender the message carried; no caller gets the
\* result computed for another caller's input.
C17_OwnResponse ==
    /\ \A i \in 1..Len(queue) : queue[i].input = queue[i].id
    /\ \A i \in 1..Len(current) :
            current[i].input = NoInput /\ current[i].arg = current[i].id
    /\ calls.run = Len(responses) + Len(current)
    /\ \A id \in 1..MaxRequests :
            Cardinality({i \in 1..Len(responses) : responses[i].id = id}) <= 1
    /\ \A i \in 1..Len(responses) :
            /\ Len(responses[i].out) = i
            /\ responses[i].out[i] = responses[i].id
            /\ \A j \in 1..i : responses[i].out[j] = responses[j].id
            /\ responses[i].id = accepted[i]

\* C17: two callers got different results, each its own
C17_Witness ==
    /\ Len(responses) >= 2
    /\ responses[1].ok # responses[2].ok
    /\ responses[1].delivered
    /\ responses[2].delivered
    /\ responses[1].out # responses[2].out

(***************************************************************************)
(* The claims about every envelope.                                        *)
(***************************************************************************)
\* C19: when the receiver of a result channel was dropped before the result
\* is sent, the send is discarded without error in every envelope: the body
\* ran to its end, the frame is released and call returns; the persistent
\* loop discards such a response and goes on to the next request.
C19_DiscardedSend ==
    /\ epc \in {"start", "body", "returned", "dropped", "done"}
    /\ (epc = "dropped" /\ resRx = "dropped") => ENABLED EnvSend
    /\ epc = "done" =>
            /\ eres # "none"
            /\ ~owner
            /\ stackSize = 0
            /\ Len(resChan) = 1
            /\ resChan[1].ok = (eres = "ok")
            /\ resChan[1].delivered = (resRx = "alive")
    /\ epc # "done" => resChan = <<>>
    /\ tpc \in {"start", "init", "init_ok", "init_err", "err_sent", "recv",
                 "run", "closed", "exit", "exited", "done"}
    /\ (tpc = "init_ok" /\ reqRx = "dropped") => ENABLED PublishHandle
    /\ \A i \in 1..Len(responses) :
            ~responses[i].delivered => responses[i].id \in rxDropped
    /\ \A id \in rxDropped : Places(id) = 1
    /\ (tpc = "run" /\ Len(frames) = 1) => ENABLED RunReturn(TRUE)
    /\ (tpc = "recv" /\ queue # <<>>) => ENABLED Recv

\* C19: an envelope returned after its result was sent to a dropped receiver
C19_Witness ==
    /\ epc = "done"
    /\ resRx = "dropped"
    /\ ~resChan[1].delivered
    /\ stackSize = 0

\* C19: the persistent loop serves a request after it discarded a response
C19_WitnessLoop ==
    /\ tpc = "run"
    /\ Len(responses) >= 1
    /\ ~responses[Len(responses)].delivered

\* C20: the Stack is back at its size before entry when the outermost scope
\* returns and when the call of any envelope returns, whether the body or an
\* inner scope returned a value or an error; nested frames lie above their
\* parents.
C20_StackRestored ==
    /\ [](/\ \A i \in 1..Len(frames) :
                /\ BodyBase <= frames[i]
                /\ frames[i] <= stackSize
                /\ i > 1 => frames[i - 1] <= frames[i]
          /\ ~InBody => frames = <<>>
          /\ (kind # "persistent" /\ epc \in {"start", "dropped", "done"})
                => stackSize = 0
          /\ (kind = "persistent" /\ tpc \in {"start", "done"})
                => stackSize = 0
          /\ tpc \in {"recv", "closed"} => stackSize = offset)
    /\ [][/\ Len(frames') < Len(frames) => stackSize' = frames[Len(frames)]
          /\ (frames # <<>> /\ frames' = <<>>) => stackSize' = frames[1]]_vars

\* C20: the call returned with the Stack empty after a scope that had rooted
\* a value returned an error and the body returned an error
C20_Witness ==
    /\ epc = "done"
    /\ eres = "err"
    /\ {"scopePushed", "scopeErr"} \subseteq phist
    /\ stackSize = 0
    /\ frames = <<>>

(***************************************************************************)
(* The claims about the frames of the persistent loop.                     *)
(***************************************************************************)
\* the roots init created that are on the Stack
InitRoots == SelectSeq(slots, LAMBDA r : r.by = "init")

LoopPhases == {"recv", "run", "closed", "exit", "exited"}

\* C21: every run, and exit, starts with the Stack truncated to the offset
\* recorded right after init returned: the roots of earlier iterations are
\* gone, and the slots below the offset, init's roots, stay as they were from
\* the end of init until the task terminates.
C21_TruncatedToOffset ==
    /\ [](tpc \in LoopPhases =>
            /\ offset <= stackSize
            /\ SubSeq(slots, 1, offset) = InitRoots
            /\ \A i \in (offset + 1)..stackSize :
                    /\ tpc \in {"run", "exit", "exited"}
                    /\ slots[i].by = (IF tpc = "run" THEN "run" ELSE "exit")
                    /\ slots[i].n = calls.run)
    /\ [][/\ (tpc = "init_ok" /\ tpc' = "recv")
               => (offset' = stackSize /\ slots' = slots)
          /\ tpc \in LoopPhases => offset' = offset
          /\ (tpc \notin {"start", "init"} /\ tpc' # "done")
               => InitRoots' = InitRoots
          /\ (calls.run' > calls.run \/ calls.exit' > calls.exit)
               => slots' = SubSeq(slots, 1, offset)]_vars

\* C21: the second run starts on a Stack that holds init's root only, after
\* the first run had rooted a value
C21_Witness ==
    /\ tpc = "run"
    /\ calls.run = 2
    /\ {"initPushed", "runPushed"} \subseteq phist
    /\ offset >= 1
    /\ stackSize = offset

(***************************************************************************)
(* More claims about every envelope.                                       *)
(***************************************************************************)
\* the steps of the call of a one-shot envelope, in order
EnvSteps ==
    {<<"start", "body">>, <<"body", "returned">>, <<"returned", "dropped">>,
     <<"dropped", "done">>}

\* C22: the call of a one-shot, registration, blocking, include or
\* configuration envelope runs once through its steps and sends exactly one
\* message on its result channel, whether the body returned Ok or Err: none
\* before the end of the call, one at its end, never two.
C22_OneResult ==
    /\ [](/\ Len(resChan) <= 1
          /\ (epc = "done") <=> (Len(resChan) = 1)
          /\ epc = "done" => resChan[1].ok = (eres = "ok")
          /\ (epc = "body" /\ frames = <<>>)
                => IF kind = "include"
                   THEN /\ ENABLED IncludeReturn(TRUE, "function", NoValue)
                        /\ ENABLED IncludeReturn(TRUE, "function", 1)
                   ELSE /\ ENABLED EnvBodyReturn(TRUE)
                        /\ ENABLED EnvBodyReturn(FALSE)
          /\ epc = "returned" => ENABLED EnvDropOwner
          /\ epc = "dropped" => ENABLED EnvSend)
    /\ [][/\ epc' # epc => <<epc, epc'>> \in EnvSteps
          /\ resChan' # resChan
               => (epc = "dropped" /\ epc' = "done" /\ resChan = <<>>)]_vars

\* C22: the call ended after a body that returned Err; its one result is Err
C22_Witness ==
    /\ epc = "done"
    /\ eres = "err"
    /\ resChan = <<[ok |-> FALSE, delivered |-> TRUE]>>

(***************************************************************************)
(* More claims about the persistent task.                                  *)
(***************************************************************************)
\* C23: an Err returned by run is the response to the request it was
\* returned for, sent like an Ok on that request's sender; the instance stays
\* in Running, its state is kept, and the requests after it are served.
C23_ErrIsAResult ==
    /\ [](/\ \A i \in 1..Len(responses) :
                /\ responses[i].delivered = (responses[i].id \notin rxDropped)
                /\ responses[i].out = [j \in 1..i |-> responses[j].id]
          /\ tpc \in {"recv", "run"} => (pstate.live /\ "closed" \notin phist)
          /\ (tpc = "recv" /\ queue # <<>>) => ENABLED Recv)
    /\ [][Len(responses') > Len(responses)
            => /\ tpc = "run"
               /\ tpc' = "recv"
               /\ responses' = Append(responses, responses'[Len(responses')])
               /\ responses'[Len(responses')].id = current[1].id
               /\ pstate'.live
               /\ pstate'.log = Append(pstate.log, current[1].arg)]_vars

\* C23: a request was served after run had returned Err for the one before
\* it; the state the Err run left is what the later run worked on
C23_Witness ==
    /\ Len(responses) >= 2
    /\ ~responses[1].ok
    /\ responses[1].delivered
    /\ responses[2].ok
    /\ Len(responses[2].out) = 2
    /\ Phase(tpc) = Running

\* C25: the state init returned is the one state of the instance: every run
\* works on the state as the run before it left it, exit gets the state as
\* the last run left it, and the state is not made anew between requests.
C25_OneState ==
    /\ [](/\ pstate.live <=> tpc \in {"init_ok", "recv", "run", "closed", "exit"}
          /\ pstate.live =>
                pstate.log = [j \in 1..Len(responses) |-> responses[j].id]
          /\ \A i \in 1..Len(responses) :
                responses[i].out = [j \in 1..i |-> responses[j].id])
    /\ [][/\ (pstate.live /\ pstate'.live) => IsPrefix(pstate.log, pstate'.log)
          /\ pstate' # pstate => tpc \in {"init", "run", "exit"}
          /\ (calls.run' > calls.run \/ calls.exit' > calls.exit)
               => pstate' = pstate]_vars

\* C25: exit runs on the state that two runs have changed
C25_Witness ==
    /\ tpc = "exit"
    /\ pstate.live
    /\ Len(pstate.log) = 2

(***************************************************************************)
(* More claims about the future bridge.                                    *)
(***************************************************************************)
\* C24: the TaskState is read and written only by the one thread that holds
\* its lock; the constructor, poll and wake_task each release the lock in the
\* step that follows taking it, with no suspension in between; the lock is
\* free again and again, and a callback that waits for it gets it.
C24_LockDiscipline ==
    /\ [](/\ lock \in {"free", "new", "poll", "wake"}
          /\ (lock = "new") <=> (cpc = "locked")
          /\ (lock = "poll") <=> (pollpc = "locked")
          /\ (lock = "wake") <=> (wpc = "locked")
          /\ lock = "new" => ENABLED StoreTask
          /\ lock = "poll" => ENABLED PollBody
          /\ lock = "wake" => ENABLED WakeBody)
    /\ [][/\ shared_state' # shared_state => (lock # "free" /\ lock' = "free")
          /\ (pollResult' # pollResult /\ pollResult' \in {"Pending", "ReadyOk", "ReadyErr"})
               => (lock = "poll" /\ lock' = "free")
          /\ lock # "free" => lock' \in {lock, "free"}]_vars
    /\ []<>(lock = "free")
    /\ (engine = "ran") ~> (wpc = "done")

\* C24: the callback waits for the lock while poll holds it
C24_Witness ==
    /\ lock = "poll"
    /\ pollpc = "locked"
    /\ engine = "ran"
    /\ wpc = "idle"

(***************************************************************************)
(* More claims about the Stack of an envelope.                             *)
(***************************************************************************)
\* the envelope's call has entered its base frame and not yet released it
InProgress ==
    IF kind = "persistent"
    THEN tpc \notin {"start", "done"}
    ELSE epc \in {"body", "returned"}

RootedOutput(i) ==
    /\ i \in 1..stackSize
    /\ slots[i].by = "output"
    /\ slots[i].n # NoValue

\* C27: a value rooted through an Output stays in its slot, below the base
\* of every scope entered after the slot was reserved, when such a scope
\* returns and the Stack is truncated to its base; the slot is given up only
\* by the return of the frame it was reserved in, or of the base frame.
C27_OutputOutlivesChild ==
    /\ [](\A k \in 1..Len(frames) : frames[k] <= stackSize)
    /\ [][/\ \A i \in 1..stackSize :
                RootedOutput(i) =>
                    \/ i <= stackSize' /\ slots'[i] = slots[i]
                    \/ /\ frames # <<>>
                       /\ frames[Len(frames)] < i
                       /\ frames' = SubSeq(frames, 1, Len(frames) - 1)
                    \/ owner /\ ~owner'
          /\ (frames # <<>> /\ frames' = SubSeq(frames, 1, Len(frames) - 1))
                => /\ stackSize' = frames[Len(frames)]
                   /\ \A i \in 1..frames[Len(frames)] : slots'[i] = slots[i]
          /\ \A i \in 1..stackSize' :
                (slots'[i].by = "output" /\ slots'[i].n # NoValue /\ ~RootedOutput(i))
                    => /\ i <= stackSize
                       /\ slots[i] = EmptyOutput
                       /\ stackSize' = stackSize]_vars

\* C27: a value was rooted in the parent's Output from a nested scope, the
\* scope pushed a root of its own and returned, and the value is the only
\* slot left on the Stack
C27_Witness ==
    /\ {"outputNested", "scopePushed"} \subseteq phist
    /\ epc = "body"
    /\ frames = <<>>
    /\ stackSize = 1
    /\ RootedOutput(1)

(***************************************************************************)
(* The claims about the include task.                                      *)
(***************************************************************************)
\* C28: a value raised by include is not dropped: when the call of include
\* raised, the include envelope sends Err with an exception error made of
\* the raised value's description, and when it sends Ok(()) include raised
\* nothing; the one result that is sent is the one the body returned.
C28_IncludeErrorSent ==
    kind = "include" =>
        /\ epc \in {"start", "body"} => included = NotIncluded
        /\ epc \in {"returned", "dropped", "done"} =>
                /\ (eres = "ok") <=> (included.error = <<>>)
                /\ included.raised # NoValue =>
                        /\ included.called
                        /\ eres = "err"
                        /\ included.error =
                              Exception(<<"Include error: ", Debug(included.raised)>>)
                /\ eres = "ok" => included.raised = NoValue
        /\ epc = "returned" => ENABLED EnvDropOwner
        /\ epc = "dropped" => ENABLED EnvSend
        /\ epc = "done" =>
                /\ Len(resChan) = 1
                /\ resChan[1].ok = (eres = "ok")
                /\ included.raised # NoValue => ~resChan[1].ok

\* C28: include raised a value and the envelope delivered Err
C28_Witness ==
    /\ kind = "include"
    /\ epc = "done"
    /\ included.called
    /\ included.raised # NoValue
    /\ resChan = <<[ok |-> FALSE, delivered |-> TRUE]>>

OwnType == PrimTypes \ {"usize", "isize"}

C31_UnreachableNeverRun ==
    /\ "unreachable" \notin hist
    /\ pollpc = "locked" =>
            /\ fut = "live"
            /\ cpc = "returned"
            /\ TaskSet
            /\ PollOutcome(shared_state, FetchRaises(outcome)) # "unreachable"
    /\ pollResult = "panic" => hist \cap {"pollPoisoned", "clonePanicked"} # {}

\* C31: wake_task ran before the constructor stored the task, and a poll
\* holds the lock and finds completed = true
C31_Witness ==
    /\ "completedBeforeTask" \in hist
    /\ pollpc = "locked"
    /\ shared_state.completed
    /\ shared_state.task = TaskHandle

(***************************************************************************)
(* The last claims about the envelopes.                                    *)
(***************************************************************************)
\* C32: an envelope other than the persistent one sends its result only
\* after it dropped the owner of its base frame: the step that sends finds
\* the owner gone, no scope open and the Stack empty, and leaves them so;
\* whenever a result is on the channel the Stack is at its mark of before
\* the call.
C32_SendAfterDrop ==
    /\ [](resChan # <<>> =>
            /\ kind # "persistent"
            /\ ~owner
            /\ frames = <<>>
            /\ stackSize = 0)
    /\ [][resChan' # resChan =>
            /\ ~owner /\ ~owner'
            /\ frames = <<>> /\ frames' = <<>>
            /\ stackSize = 0 /\ stackSize' = 0
            /\ epc = "dropped"]_vars

\* C32: a body that opened a scope and pushed a root in it returned, and the
\* submitter has the result of the envelope
C32_Witness ==
    /\ "scopePushed" \in phist
    /\ resChan # <<>>
    /\ resChan[1].delivered
    /\ ~owner
    /\ stackSize = 0

(***************************************************************************)
(* The last claims about the persistent task.                              *)
(***************************************************************************)
\* C33: the loop leaves Running only when every handle was dropped: while a
\* handle is alive the loop is receiving or running, recv does not report
\* the channel closed and exit was not invoked; the step out of the loop is
\* taken with no handle and no message left, and no handle comes to life
\* afterwards.
C33_RunningWhileHandles ==
    /\ [](handles >= 1 =>
            /\ tpc \in {"recv", "run"}
            /\ Phase(tpc) = Running
            /\ ~ENABLED RecvClosed
            /\ calls.exit = 0
            /\ pstate.live)
    /\ [][/\ (tpc \in {"recv", "run"} /\ tpc' \notin {"recv", "run"})
                => (handles = 0 /\ handles' = 0 /\ queue = <<>> /\ waiting = {})
          /\ (handles = 0 /\ tpc \notin {"start", "init", "init_ok"})
                => handles' = 0]_vars

\* C33: the loop served a request and waits at recv with nothing queued,
\* while two handles are alive
C33_Witness ==
    /\ tpc = "recv"
    /\ queue = <<>>
    /\ calls.run >= 1
    /\ handles = 2
    /\ waiting = {}

\* C34: when the requester dropped its end of the handle channel before init
\* finished, the handle that is published is discarded and with it the only
\* sender: no request is ever sent, the first recv reports the channel
\* closed, exit is invoked once with no run before it, and the envelope
\* releases its frame and returns; it does not stay in Running.
C34_EarlyDropTerminates ==
    /\ []("droppedEarly" \in phist =>
            /\ reqRx = "dropped"
            /\ handles = 0
            /\ nextId = 0
            /\ queue = <<>>
            /\ calls.run = 0
            /\ calls.exit <= 1
            /\ calls.exit = 1 <=> tpc \in {"exit", "exited", "done"} /\ "initFailed" \notin phist
            /\ tpc = "init_ok" => ENABLED PublishHandle
            /\ tpc = "recv" => (ENABLED RecvClosed /\ ~ENABLED Recv)
            /\ tpc = "closed" => ENABLED CallExit
            /\ tpc = "done" => (~owner /\ stackSize = 0 /\ ~pstate.live))
    /\ ("droppedEarly" \in phist /\ tpc = "init_ok") ~> (tpc = "done" /\ calls.exit = 1)

\* C34: the requester left during init, init succeeded, and the envelope
\* returned after exit and no run
C34_Witness ==
    /\ "droppedEarly" \in phist
    /\ "initFailed" \notin phist
    /\ handleChan = <<"handle">>
    /\ tpc = "done"
    /\ calls = [init |-> 1, run |-> 0, exit |-> 1]

\* the request id was received by the loop and a response to it was sent
Answered(id) == \E j \in 1..Len(responses) : responses[j].id = id

\* C35: a request the channel accepted is not abandoned when the channel
\* closes: recv reports closed only when no message is queued, so when exit
\* is invoked run was invoked and a response sent for every accepted
\* request; with every handle dropped, the loop serves what is queued and
\* the envelope comes to its end.
C35_QueuedAreServed ==
    /\ [](/\ (tpc = "recv" /\ queue # <<>>) => (ENABLED Recv /\ ~ENABLED RecvClosed)
          /\ ("closed" \in phist /\ tpc # "recv") =>
                /\ queue = <<>>
                /\ waiting = {}
                /\ calls.run = Len(accepted)
                /\ Len(responses) = Len(accepted)
                /\ \A i \in 1..Len(accepted) : Answered(accepted[i]))
    /\ [][calls.exit' > calls.exit
            => \A i \in 1..Len(accepted) : Answered(accepted[i])]_vars
    /\ (handles = 0 /\ tpc \in {"recv", "run"})
            ~> (tpc = "done" /\ \A i \in 1..Len(accepted) : Answered(accepted[i]))

\* C35: a request was queued when the last handle was dropped, and exit runs
\* after a response was sent to every accepted request
C35_Witness ==
    /\ "queuedAtClose" \in phist
    /\ tpc = "exit"
    /\ Len(accepted) >= 2
    /\ \A i \in 1..Len(accepted) : Answered(accepted[i])

\* C36: completed is monotone: it is false in the state the constructor
\* creates and stays false until wake_task holds the lock; the one step that
\* writes it is the body of wake_task, which sets it to true, and neither the
\* constructor nor poll nor wake_task sets it back to false.
C36_CompletedMonotone ==
    /\ [](/\ ~TaskStateNew.completed
          /\ wpc = "idle" => ~shared_state.completed
          /\ wpc = "done" => (shared_state.completed \/ "wakePoisoned" \in hist))
    /\ [][/\ shared_state.completed => shared_state'.completed
          /\ shared_state'.completed # shared_state.completed
                => (wpc = "locked" /\ lock = "wake" /\ wpc' = "done")]_vars

\* C36: wake_task set completed before the constructor stored the task, and
\* a poll after both resolved the future with completed still true
C36_Witness ==
    /\ "completedBeforeTask" \in hist
    /\ Resolved
    /\ shared_state.completed
    /\ cpc = "returned"

\* C37: a waker is woken at most once for a future: wake_task takes the
\* waker out of the state in the step that sets completed and wakes it, so
\* the state holds no waker once completed is true, a poll after completion
\* stores none, and nothing is woken by any other step.
C37_WokenOnce ==
    /\ [](/\ Len(woken) <= 1
          /\ shared_state.completed => shared_state.waker = NoWaker
          /\ woken # <<>> => (wpc = "done" /\ shared_state.completed
                              /\ woken[1] \in Wakers))
    /\ [][/\ shared_state.completed => shared_state'.waker = NoWaker
          /\ woken' # woken
                => /\ wpc = "locked" /\ wpc' = "done"
                   /\ woken = <<>>
                   /\ woken' = <<shared_state.waker>>
                   /\ shared_state'.waker = NoWaker]_vars

\* C37: a poll stored a waker, wake_task woke it, and the poll after that
\* resolved the future and left no waker in the state
C37_Witness ==
    /\ Len(woken) = 1
    /\ "pollAfterWake" \in hist
    /\ Resolved
    /\ shared_state.waker = NoWaker

(***************************************************************************)
(* The last claims about the include task, the request channel and the     *)
(* lookups in a Module.                                                    *)
(***************************************************************************)
\* the include task's body returned Ok(()) without calling include: the path
\* could not be converted
PathSkipped == ~included.called /\ included.error = <<>>

\* C38: when the path of an include task is not UTF-8, include is not called
\* and the body returns Ok(()), whatever a lookup or a call would have
\* given; the envelope sends Ok(()), the same message it sends after an
\* include that raised nothing.
C38_InvalidPathIsOk ==
    /\ \A lookup \in Lookups, exc \in {NoValue} \cup Values :
            call_inner(FALSE, lookup, exc) = call_inner(TRUE, "function", NoValue)
    /\ call_inner(TRUE, "function", NoValue) = Ok
    /\ (kind = "include" /\ epc \in {"returned", "dropped", "done"} /\ PathSkipped) =>
            /\ eres = "ok"
            /\ included.raised = NoValue
            /\ epc = "done" => resChan = <<[ok |-> TRUE, delivered |-> resRx = "alive"]>>
    /\ (kind = "include" /\ epc \in {"returned", "dropped", "done"} /\ ~PathSkipped) =>
            (included.called \/ eres = "err")

\* C38: an include task whose path was not converted delivered Ok(())
C38_Witness ==
    /\ kind = "include"
    /\ epc = "done"
    /\ PathSkipped
    /\ resChan = <<[ok |-> TRUE, delivered |-> TRUE]>>

Looked == mainModule.globals[mainModule.name]

\* C40: a lookup in a module gives GlobalNotFound when the name is not bound,
\* submodule gives NotAModule when the global is not a module, function gives
\* NotAFunction when the global is not a Function, and a lookup gives Ok,
\* with that global, only when the global exists and has the kind asked for.
C40_LookupKinds ==
    mainModule.op # "none" =>
        LET v == Looked
            r == mainModule.res
            exists == v.ty # "null"
            asked == CASE mainModule.op = "submodule" -> v.ty = "Module"
                       [] mainModule.op = "function" -> v.ty = "#f"
                       [] mainModule.op = "global" -> TRUE
        IN  /\ ~exists =>
                  /\ r.tag = "GlobalNotFound"
                  /\ r.name = mainModule.name
            /\ (exists /\ mainModule.op = "submodule" /\ v.ty # "Module") =>
                  /\ r.tag = "NotAModule"
                  /\ r.name = mainModule.name
                  /\ r.info = v.ty
            /\ (exists /\ mainModule.op = "function" /\ v.ty # "#f") =>
                  /\ r.tag = "NotAFunction"
                  /\ r.name = mainModule.name
                  /\ r.info = v.ty
            /\ r.tag = "Ok" <=> (exists /\ asked)
            /\ r.tag = "Ok" => r.data = v
            /\ r.tag # "Ok" => r.data = Null

\* C40: a function was looked up as a submodule, in a module that also binds
\* a module and lacks a name
C40_Witness ==
    /\ mainModule.op = "submodule"
    /\ Looked.ty = "#f"
    /\ mainModule.res = NotAModule(mainModule.name, "#f")
    /\ \E n \in Names : mainModule.globals[n] = Null
    /\ \E n \in Names : mainModule.globals[n].ty = "Module"

============================================================================
